---- MODULE Spec2Model ----
(***************************************************************************)
(* A model of the schedule bot: its state store (bot/data.py) with the     *)
(* message history log, the day-emptiness rule and the schedule pages with *)
(* their navigation buttons and teacher text (bot/pages.py), the           *)
(* fetch-window bucketing (lib/api/utils.py), the callback codec and the   *)
(* button handler registry (main.py, bot/button_handlers), the walk from   *)
(* page to page by the day buttons, the schedule section composed from a   *)
(* day record, and the handler groups an update goes through (main.py).    *)
(*                                                                         *)
(* Python values are modelled as follows: a dict is a function whose       *)
(* domain is its key set, a list is a sequence, None is the string "None", *)
(* group ids and language codes are strings, timestamps are integers       *)
(* (seconds).  Every value the model stores is a JSON value, so json.dump  *)
(* followed by json.load gives the value back; a file is modelled by the   *)
(* dict its JSON text denotes.  In the page, codec and handler parts a     *)
(* Python string is a sequence of one-character strings, a date is a       *)
(* record of year, month and day, and None is the empty sequence.          *)
(***************************************************************************)
EXTENDS Integers, Sequences, FiniteSets, TLC

VARIABLES
    cache,      \* BaseDataManager._cache: file path -> dict
    disk,       \* the data files: file path -> dict stored in the file
    now,        \* int(time.time())
    loads,      \* ghost: how often _load ran for each file path
    op,         \* ghost: the last store operation, its inputs and outcome
    nmsg,       \* ghost: the highest message id handed out so far
    nedit       \* ghost: the updates and removals of stored messages so far

VARIABLES
    rpc,        \* two set calls on one chat: where each call stands
    rphase,     \* 1 in super().set('_updated', ...), 2 from super().set(field, value) on
    rdata,      \* the local variable data of each call: the dict it refers to
    rargs,      \* the (field, value) of each call
    heap,       \* the dict objects: the one cached at the start, one per _load
    cref,       \* the dict _cache holds for the chat, "none" when it holds none
    rfile       \* the chat's data file: <<>> when missing, else <<the dict in it>>

VARIABLES
    day,        \* _is_day_empty: the day it is given
    day_empty,  \* _is_day_empty: <<its result>>, <<>> before the call
    date,       \* get_date_range: the date it is given
    range,      \* get_date_range: the bucket size it is given
    date_range  \* get_date_range: <<from_date, to_date>>, <<>> before the call

VARIABLES
    group_id,   \* schedule: ctx.chat_data.get('group_id'), <<>> for None
    req_date,   \* schedule: the date asked for
    today,      \* _date.today()
    remote,     \* the days the remote API holds for the group, sorted by date
    api_status, \* the outcome of each api.timetable_group call, in call order
    sched_page     \* the page schedule returned, <<>> before the call

VARIABLES
    handlers,   \* button_handlers: the registered (pattern, callback) rules
    action,     \* the callback data of the update dispatched last
    ran,        \* the callbacks that ran for it, in order
    cb_name,    \* CallbackCodec: the action name given to encode
    cb_args,    \* CallbackCodec: the arguments given to encode, in order
    cb_data,    \* CallbackCodec: <<the encoded string>>, <<>> before the call
    cb_query    \* CallbackCodec: <<decode of the string>>, <<>> before the call

VARIABLES
    teachersNameFull, \* _create_schedule_section: period['teachersNameFull']
    teacher,          \* _find_teacher's answer: <<>> for None, else <<page link>>
    teacher_name      \* <<the teacher text put into the section>>, <<>> before

VARIABLES
    nav_lessons, \* navigation: the lessons the remote holds for each busy date
    nav_trail,   \* navigation: the dates of the pages opened, in order
    nav_moves,   \* navigation: the buttons followed, "next" or "prev"
    nav_page     \* navigation: <<the page shown>>, <<>> before the first

VARIABLES
    render_given,    \* _create_schedule_section: the day record as the caller got it
    render_day,      \* the same record now (the function works on it in place)
    render_known,    \* the names teacher_finder finds
    render_sections  \* what each call so far handed to the period template

VARIABLES
    upd,       \* main.py: <<kind of the update being processed>>, <<>> between updates
    upd_ran,   \* the callbacks run for that update, in order
    upd_count  \* updates received so far

storeVars == <<cache, disk, now, loads, op, nmsg, nedit>>
raceVars == <<rpc, rphase, rdata, rargs, heap, cref, rfile>>
dayVars == <<day, day_empty>>
dateVars == <<date, range, date_range>>
pageVars == <<group_id, req_date, today, remote, api_status, sched_page>>
dispatchVars == <<handlers, action, ran>>
codecVars == <<cb_name, cb_args, cb_data, cb_query>>
teacherVars == <<teachersNameFull, teacher, teacher_name>>
navVars == <<nav_lessons, nav_trail, nav_moves, nav_page>>
renderVars == <<render_given, render_day, render_known, render_sections>>
updVars == <<upd, upd_ran, upd_count>>
restVars == <<navVars, renderVars, updVars>>
uiVars == <<pageVars, dispatchVars, codecVars, teacherVars, restVars>>
vars == <<storeVars, raceVars, dayVars, dateVars, uiVars>>

----------------------------------------------------------------------------
(* Bounds and program constants                                            *)

MESSAGES_LIMIT == 16

\* the clock runs from 0 to MaxTime
MaxTime == 1
\* message ids handed out in the history specification
MaxMsgId == 18
\* updates and removals of stored messages in the history specification
MaxEdits == 2

ChatIds == {"c1"}
UserIds == {"u1"}
Ids == ChatIds \cup UserIds

DEFAULT_LANG == "uk"
LangCodes == {"uk", "en"}
PageNames == {"menu", "schedule"}

\* the (key, value) pairs drawn for set; "cl_notif_suggested" is not a key
\* of the default record (main.py sets it)
ChatWrites == {<<"lang_code", "en">>, <<"_accessible", FALSE>>,
               <<"_accessible", TRUE>>, <<"cl_notif_suggested", TRUE>>}
UserWrites == {<<"ref", "r1">>}
Writes(id) == IF id \in ChatIds THEN ChatWrites ELSE UserWrites
ReadKeys == {"_accessible", "ref"}
\* the message ids and page names drawn in the store specification
StoreMsgIds == {1}
StorePages == {"menu"}

----------------------------------------------------------------------------
(* Python dict helpers                                                     *)

\* d[key] = value on a dict
Put(d, key, value) ==
    [k \in DOMAIN d \cup {key} |-> IF k = key THEN value ELSE d[k]]

\* d.get(key, default)
DictGet(d, key, default) == IF key \in DOMAIN d THEN d[key] ELSE default

\* truthiness of a dict
Truthy(d) == DOMAIN d # {}

----------------------------------------------------------------------------
(* bot/data.py                                                             *)

get_default_user(t) ==
    [k \in {"admin", "ref", "_created", "_updated"} |->
        CASE k = "admin" -> FALSE
          [] k = "ref" -> "None"
          [] k = "_created" -> t
          [] k = "_updated" -> t]

get_default_chat(t) ==
    [k \in {"lang_code", "group_id", "cl_notif_15m", "cl_notif_1m",
            "seen_settings", "_messages", "_accessible", "_created",
            "_updated"} |->
        CASE k = "lang_code" -> DEFAULT_LANG
          [] k = "group_id" -> "None"
          [] k = "cl_notif_15m" -> FALSE
          [] k = "cl_notif_1m" -> FALSE
          [] k = "seen_settings" -> FALSE
          [] k = "_messages" -> <<>>
          [] k = "_accessible" -> TRUE
          [] k = "_created" -> t
          [] k = "_updated" -> t]

get_default(id, t) ==
    IF id \in ChatIds THEN get_default_chat(t) ELSE get_default_user(t)

\* The store operators take and return a store state
\* st = [cache, disk, loads] and the clock reading t.

\* FileDataManager._load: the dict read from the file; a missing file is
\* created with the defaults
_load(st, id, t) ==
    IF id \notin DOMAIN st.disk
    THEN [st EXCEPT !.disk = Put(st.disk, id, get_default(id, t)),
                    !.loads[id] = @ + 1]
    ELSE [st EXCEPT !.loads[id] = @ + 1]

\* _get_data that never looks into _cache
GetDataAlwaysLoad(st, id, t) ==
    LET s1 == _load(st, id, t)
    IN [s1 EXCEPT !.cache = Put(s1.cache, id, s1.disk[id])]

\* BaseDataManager._get_data: afterwards st.cache[id] is the dict returned
_get_data(st, id, t) ==
    IF id \in DOMAIN st.cache /\ Truthy(st.cache[id])
    THEN st
    ELSE LET s1 == _load(st, id, t)
         IN [s1 EXCEPT !.cache = Put(s1.cache, id, s1.disk[id])]

\* BaseDataManager.get: the value returned (the store state after it is
\* _get_data's)
get(st, id, key, default, t) ==
    DictGet(_get_data(st, id, t).cache[id], key, default)

\* a set that starts from a fresh default dict
BaseSetFresh(st, id, key, value, t) ==
    LET s1 == _get_data(st, id, t)
    IN [s1 EXCEPT !.cache[id] = Put(get_default(id, t), key, value)]

\* BaseDataManager.set
base_set(st, id, key, value, t) ==
    LET s1 == _get_data(st, id, t)
    IN [s1 EXCEPT !.cache[id] = Put(@, key, value)]

\* FileDataManager._save
_save(st, id, t) ==
    LET data == IF id \in DOMAIN st.cache /\ Truthy(st.cache[id])
                THEN st.cache[id]
                ELSE get_default(id, t)
    IN [st EXCEPT !.disk = Put(st.disk, id, data)]

\* a set that leaves out self._save()
SetNoSave(st, id, key, value, t) ==
    base_set(base_set(st, id, "_updated", t, t), id, key, value, t)

\* ChatDataManager.set and UserDataManager.set
set(st, id, key, value, t) ==
    _save(base_set(base_set(st, id, "_updated", t, t), id, key, value, t),
          id, t)

\* the raw form of a StoredMessage
message_raw(message) ==
    <<message.id, message.timestamp, message.page_name, message.lang_code,
      message.data>>

\* the index of the first entry with the id, 0 when there is none
IndexOf(messages, msg_id) ==
    IF \E i \in 1..Len(messages) : messages[i][1] = msg_id
    THEN CHOOSE i \in 1..Len(messages) :
            /\ messages[i][1] = msg_id
            /\ \A j \in 1..(i - 1) : messages[j][1] # msg_id
    ELSE 0

\* the list with its first element popped
Pop0(messages) == SubSeq(messages, 2, Len(messages))

\* the list with the element at index i popped
PopAt(messages, i) ==
    SubSeq(messages, 1, i - 1) \o SubSeq(messages, i + 1, Len(messages))

\* ChatDataManager.add_message, the list after the update or append and the
\* limit
\* variants of the list update: without the limit, without the scan,
\* popping the newest entry instead of the oldest, and with a scan that
\* leaves out the entry at index 0
AddNoLimit(messages, message) ==
    LET i == IndexOf(messages, message.id)
    IN IF i # 0
       THEN [messages EXCEPT ![i] = message_raw(message)]
       ELSE Append(messages, message_raw(message))

AddAlwaysAppend(messages, message) ==
    LET l == Append(messages, message_raw(message))
    IN IF Len(l) > MESSAGES_LIMIT THEN Pop0(l) ELSE l

AddDropLast(messages, message) ==
    LET i == IndexOf(messages, message.id)
        l == IF i # 0
             THEN [messages EXCEPT ![i] = message_raw(message)]
             ELSE Append(messages, message_raw(message))
    IN IF Len(l) > MESSAGES_LIMIT THEN SubSeq(l, 1, Len(l) - 1) ELSE l

AddScanFromSecond(messages, message) ==
    LET i == IF Len(messages) > 0 /\ messages[1][1] = message.id
             THEN 0 ELSE IndexOf(messages, message.id)
        l == IF i # 0
             THEN [messages EXCEPT ![i] = message_raw(message)]
             ELSE Append(messages, message_raw(message))
    IN IF Len(l) > MESSAGES_LIMIT THEN Pop0(l) ELSE l

added(messages, message) ==
    LET i == IndexOf(messages, message.id)
        l == IF i # 0
             THEN [messages EXCEPT ![i] = message_raw(message)]
             ELSE Append(messages, message_raw(message))
    IN IF Len(l) > MESSAGES_LIMIT THEN Pop0(l) ELSE l

\* ChatDataManager.add_message: messages_raw is the cached list itself, so
\* the change is in the cached dict before set stores it there again
add_message(st, id, message, t) ==
    LET s1 == _get_data(st, id, t)
        messages_raw == added(s1.cache[id]["_messages"], message)
        s2 == [s1 EXCEPT !.cache[id] = Put(@, "_messages", messages_raw)]
    IN set(s2, id, "_messages", messages_raw, t)

\* ChatDataManager.remove_message: the entry is popped from the cached
\* list, then self._get_file (no such attribute) raises AttributeError
\* before _save is called
remove_message(st, id, msg_id, t) ==
    LET s1 == _get_data(st, id, t)
        messages_raw == s1.cache[id]["_messages"]
        i == IndexOf(messages_raw, msg_id)
    IN IF i # 0
       THEN [s1 EXCEPT !.cache[id] = Put(@, "_messages", PopAt(messages_raw, i))]
       ELSE s1

----------------------------------------------------------------------------
(* The store as a state machine: one action per store operation            *)

St == [cache |-> cache, disk |-> disk, loads |-> loads]

Becomes(st) ==
    /\ cache' = st.cache
    /\ disk' = st.disk
    /\ loads' = st.loads

\* what _get_data would return for the id in the current state
Record(id) ==
    IF id \in DOMAIN cache /\ Truthy(cache[id]) THEN cache[id]
    ELSE IF id \in DOMAIN disk THEN disk[id]
    ELSE get_default(id, now)

Messages(id) == Record(id)["_messages"]

MsgIds(messages) == {messages[i][1] : i \in 1..Len(messages)}

StoreInit ==
    /\ cache = <<>>
    /\ disk = <<>>
    /\ now = 0
    /\ loads = [id \in Ids |-> 0]
    /\ op = [name |-> "init"]
    /\ nmsg = 0
    /\ nedit = 0

\* time.time() advances between operations
Tick ==
    /\ now < MaxTime
    /\ now' = now + 1
    /\ op' = [name |-> "tick"]
    /\ UNCHANGED <<cache, disk, loads, nmsg, nedit>>
    /\ UNCHANGED <<raceVars, dayVars, dateVars, uiVars>>

Get(id, key) ==
    /\ Becomes(_get_data(St, id, now))
    /\ op' = [name |-> "get", id |-> id, key |-> key,
              ret |-> get(St, id, key, "None", now),
              cached |-> id \in DOMAIN cache,
              stored |-> id \in DOMAIN disk]
    /\ UNCHANGED <<now, nmsg, nedit>>
    /\ UNCHANGED <<raceVars, dayVars, dateVars, uiVars>>

Set(id, key, value) ==
    /\ Becomes(set(St, id, key, value, now))
    /\ op' = [name |-> "set", id |-> id, key |-> key, val |-> value,
              cached |-> id \in DOMAIN cache,
              after_set |-> op.name = "set" /\ op.id = id,
              pkey |-> IF op.name = "set" THEN op.key ELSE "",
              pval |-> IF op.name = "set" THEN op.val ELSE ""]
    /\ UNCHANGED <<now, nmsg, nedit>>
    /\ UNCHANGED <<raceVars, dayVars, dateVars, uiVars>>

\* a StoredMessage as main.py builds it: the date of the sent message and
\* the chat's language
StoredMessage(id, msg_id, page_name) ==
    [id |-> msg_id, timestamp |-> now, page_name |-> page_name,
     lang_code |-> get(St, id, "lang_code", "None", now), data |-> "None"]

AddMessage(id, message) ==
    /\ Becomes(add_message(St, id, message, now))
    /\ op' = [name |-> "add_message", id |-> id, msg |-> message,
              found |-> message.id \in MsgIds(Messages(id)),
              len0 |-> Len(Messages(id)),
              first |-> IF Len(Messages(id)) > 0 THEN Messages(id)[1]
                        ELSE <<>>]
    /\ UNCHANGED now
    /\ UNCHANGED <<raceVars, dayVars, dateVars, uiVars>>

\* remove_message ends in AttributeError; the cached list has changed
RemoveMessage(id, msg_id) ==
    /\ Becomes(remove_message(St, id, msg_id, now))
    /\ op' = [name |-> "remove_message", id |-> id, msg_id |-> msg_id,
              found |-> msg_id \in MsgIds(Messages(id)),
              raised |-> TRUE]
    /\ UNCHANGED now
    /\ UNCHANGED <<raceVars, dayVars, dateVars, uiVars>>

\* the two-call variables while no such calls run
RaceIdle ==
    /\ rpc = <<>>
    /\ rphase = <<>>
    /\ rdata = <<>>
    /\ rargs = <<>>
    /\ heap = <<>>
    /\ cref = "none"
    /\ rfile = <<>>

\* the variables of the page and date functions while none is called
DayIdle ==
    /\ day = [date |-> "", lessons |-> <<>>]
    /\ day_empty = <<>>

DateIdle ==
    /\ date = <<>>
    /\ range = 0
    /\ date_range = <<>>

PageIdle ==
    /\ group_id = <<>>
    /\ req_date = <<>>
    /\ today = <<>>
    /\ remote = <<>>
    /\ api_status = <<>>
    /\ sched_page = <<>>

DispatchIdle ==
    /\ handlers = <<>>
    /\ action = <<>>
    /\ ran = <<>>

CodecIdle ==
    /\ cb_name = <<>>
    /\ cb_args = <<>>
    /\ cb_data = <<>>
    /\ cb_query = <<>>

TeacherIdle ==
    /\ teachersNameFull = <<>>
    /\ teacher = <<>>
    /\ teacher_name = <<>>

NavIdle ==
    /\ nav_lessons = <<>>
    /\ nav_trail = <<>>
    /\ nav_moves = <<>>
    /\ nav_page = <<>>

RenderIdle ==
    /\ render_given = <<>>
    /\ render_day = <<>>
    /\ render_known = {}
    /\ render_sections = <<>>

UpdIdle ==
    /\ upd = <<>>
    /\ upd_ran = <<>>
    /\ upd_count = 0

RestIdle == NavIdle /\ RenderIdle /\ UpdIdle

UiIdle == PageIdle /\ DispatchIdle /\ CodecIdle /\ TeacherIdle /\ RestIdle

\* The store specification: every operation on every id, few messages
StoreAdd ==
    \E id \in ChatIds, msg_id \in StoreMsgIds, page \in StorePages :
        /\ AddMessage(id, StoredMessage(id, msg_id, page))
        /\ UNCHANGED <<nmsg, nedit>>

StoreRemove ==
    \E id \in ChatIds, msg_id \in StoreMsgIds :
        /\ RemoveMessage(id, msg_id)
        /\ UNCHANGED <<nmsg, nedit>>

StoreGet == \E id \in Ids, key \in ReadKeys : Get(id, key)

StoreSet == \E id \in Ids : \E w \in Writes(id) : Set(id, w[1], w[2])

Init == StoreInit /\ RaceIdle /\ DayIdle /\ DateIdle /\ UiIdle

Next == Tick \/ StoreGet \/ StoreSet \/ StoreAdd \/ StoreRemove

Spec == Init /\ [][Next]_vars

\* The history specification: one chat, message ids handed out in
\* increasing order (as the transport does), up to MaxEdits updates and
\* removals
HistAddNew ==
    /\ nmsg < MaxMsgId
    /\ AddMessage("c1", StoredMessage("c1", nmsg + 1, "menu"))
    /\ nmsg' = nmsg + 1
    /\ UNCHANGED nedit

HistUpdate ==
    /\ nedit < MaxEdits
    /\ \E msg_id \in MsgIds(Messages("c1")) :
          AddMessage("c1", StoredMessage("c1", msg_id, "schedule"))
    /\ nedit' = nedit + 1
    /\ UNCHANGED nmsg

HistRemove ==
    /\ nedit < MaxEdits
    /\ \E msg_id \in MsgIds(Messages("c1")) \cup {nmsg + 1} :
          RemoveMessage("c1", msg_id)
    /\ nedit' = nedit + 1
    /\ UNCHANGED nmsg

HistNext == HistAddNew \/ HistUpdate \/ HistRemove

SpecHistory == Init /\ [][HistNext]_vars

----------------------------------------------------------------------------
(* Two set calls on one chat id, their steps interleaved.  No lock is      *)
(* taken in bot/data.py; each call goes through _get_data (look the id up  *)
(* in _cache, else _load and store the dict in _cache), changes the dict,  *)
(* and _save writes the dict _cache holds.                                 *)

Procs == {"p1", "p2"}
\* the dict cached before the calls start, and the dict each call loads
Objs == {"o0"} \cup Procs

\* the clock reading during the two calls
RaceTime == 1

RaceInit ==
    /\ rpc = [p \in Procs |-> "lookup"]
    /\ rphase = [p \in Procs |-> 1]
    /\ rdata = [p \in Procs |-> "none"]
    /\ rargs \in [Procs -> ChatWrites]
    /\ \/ /\ rfile = <<>>                       \* no file, nothing cached
          /\ heap = [o \in Objs |-> <<>>]
          /\ cref = "none"
       \/ /\ rfile = <<get_default_chat(0)>>     \* a file, nothing cached
          /\ heap = [o \in Objs |-> <<>>]
          /\ cref = "none"
       \/ /\ rfile = <<get_default_chat(0)>>     \* a file and its dict cached
          /\ heap = [o \in Objs |-> IF o = "o0" THEN get_default_chat(0) ELSE <<>>]
          /\ cref = "o0"

\* _get_data, data = self._cache.get(self._id); if data: return data
RaceLookup(p) ==
    /\ rpc[p] = "lookup"
    /\ IF cref # "none" /\ Truthy(heap[cref])
       THEN /\ rdata' = [rdata EXCEPT ![p] = cref]
            /\ rpc' = [rpc EXCEPT ![p] = "mutate"]
       ELSE /\ rpc' = [rpc EXCEPT ![p] = "load"]
            /\ UNCHANGED rdata
    /\ UNCHANGED <<rphase, rargs, heap, cref, rfile>>
    /\ UNCHANGED <<storeVars, dayVars, dateVars, uiVars>>

\* _get_data, data = self._load(): a new dict, the file created if missing
RaceLoad(p) ==
    /\ rpc[p] = "load"
    /\ IF rfile = <<>>
       THEN /\ rfile' = <<get_default_chat(RaceTime)>>
            /\ heap' = [heap EXCEPT ![p] = get_default_chat(RaceTime)]
       ELSE /\ heap' = [heap EXCEPT ![p] = rfile[1]]
            /\ UNCHANGED rfile
    /\ rdata' = [rdata EXCEPT ![p] = p]
    /\ rpc' = [rpc EXCEPT ![p] = "store"]
    /\ UNCHANGED <<rphase, rargs, cref>>
    /\ UNCHANGED <<storeVars, dayVars, dateVars, uiVars>>

\* _get_data, self._cache[self._id] = data
RaceStore(p) ==
    /\ rpc[p] = "store"
    /\ cref' = rdata[p]
    /\ rpc' = [rpc EXCEPT ![p] = "mutate"]
    /\ UNCHANGED <<rphase, rdata, rargs, heap, rfile>>
    /\ UNCHANGED <<storeVars, dayVars, dateVars, uiVars>>

\* BaseDataManager.set, data[key] = value on the dict _get_data returned
RaceMutate(p) ==
    /\ rpc[p] = "mutate"
    /\ heap' = [heap EXCEPT ![rdata[p]] =
                    IF rphase[p] = 1 THEN Put(@, "_updated", RaceTime)
                    ELSE Put(@, rargs[p][1], rargs[p][2])]
    /\ rpc' = [rpc EXCEPT ![p] = IF rphase[p] = 1 THEN "lookup" ELSE "save_get"]
    /\ rphase' = [rphase EXCEPT ![p] = 2]
    /\ UNCHANGED <<rdata, rargs, cref, rfile>>
    /\ UNCHANGED <<storeVars, dayVars, dateVars, uiVars>>

\* _save, data = self._cache.get(self._filepath) or self.get_default()
RaceSaveGet(p) ==
    /\ rpc[p] = "save_get"
    /\ rdata' = [rdata EXCEPT ![p] =
                    IF cref # "none" /\ Truthy(heap[cref]) THEN cref ELSE "none"]
    /\ rpc' = [rpc EXCEPT ![p] = "save_write"]
    /\ UNCHANGED <<rphase, rargs, heap, cref, rfile>>
    /\ UNCHANGED <<storeVars, dayVars, dateVars, uiVars>>

\* _save, json.dump(data, file): the dict as it is when it is written
\* a _save that takes the fallback get_default() although the dict is cached
RaceSavedDefault(p) == get_default_chat(RaceTime)

RaceSaved(p) ==
    IF rdata[p] = "none" THEN get_default_chat(RaceTime) ELSE heap[rdata[p]]

RaceSaveWrite(p) ==
    /\ rpc[p] = "save_write"
    /\ rfile' = <<RaceSaved(p)>>
    /\ rpc' = [rpc EXCEPT ![p] = "done"]
    /\ UNCHANGED <<rphase, rdata, rargs, heap, cref>>
    /\ UNCHANGED <<storeVars, dayVars, dateVars, uiVars>>

RaceNext ==
    \/ \E p \in Procs : RaceLookup(p)
    \/ \E p \in Procs : RaceLoad(p)
    \/ \E p \in Procs : RaceStore(p)
    \/ \E p \in Procs : RaceMutate(p)
    \/ \E p \in Procs : RaceSaveGet(p)
    \/ \E p \in Procs : RaceSaveWrite(p)

InitRace == StoreInit /\ RaceInit /\ DayIdle /\ DateIdle /\ UiIdle

SpecRace == InitRace /\ [][RaceNext]_vars

RaceDone == \A p \in Procs : rpc[p] = "done"

\* the file holds the value the call wrote
Kept(p) ==
    /\ rfile # <<>>
    /\ rargs[p][1] \in DOMAIN rfile[1]
    /\ rfile[1][rargs[p][1]] = rargs[p][2]

Other(p) == CHOOSE q \in Procs : q # p

\* C7: two set calls on one chat id with different keys, their steps
\* interleaved without a lock, can end with the persisted record lacking
\* one of the two values (C7_Lost is reached).  In every execution the last
\* write wins without a merge: the final file is one of the dicts in
\* memory, whole; it has at least one of the two values; and it has both
\* when the record was cached before the calls started.
C7_LastWriteWins ==
    (RaceDone /\ rargs["p1"][1] # rargs["p2"][1]) =>
        /\ rfile # <<>>
        /\ \E o \in Objs : rfile[1] = heap[o]
        /\ \E p \in Procs : Kept(p)
        /\ Truthy(heap["o0"]) => \A p \in Procs : Kept(p)

\* both calls have returned and the file lacks the value p1 wrote
C7_Lost ==
    /\ RaceDone
    /\ rargs["p1"] = <<"lang_code", "en">>
    /\ rargs["p2"] = <<"cl_notif_suggested", TRUE>>
    /\ rfile[1]["lang_code"] = DEFAULT_LANG
    /\ heap[cref]["lang_code"] = DEFAULT_LANG
    /\ Kept("p2")

----------------------------------------------------------------------------
(* bot/pages.py, _is_day_empty.  A str is a sequence of one-character      *)
(* strings.  The marker in the source is a Ukrainian word; it is written   *)
(* here in Latin letters, which str.lower() treats the same way.           *)

UpperCase == <<"A", "B", "C", "D", "E", "F", "G", "H", "I", "J", "K", "L", "M",
               "N", "O", "P", "Q", "R", "S", "T", "U", "V", "W", "X", "Y", "Z">>
LowerCase == <<"a", "b", "c", "d", "e", "f", "g", "h", "i", "j", "k", "l", "m",
               "n", "o", "p", "q", "r", "s", "t", "u", "v", "w", "x", "y", "z">>

\* str.lower()
LowerChar(c) ==
    IF \E i \in 1..Len(UpperCase) : UpperCase[i] = c
    THEN LowerCase[CHOOSE i \in 1..Len(UpperCase) : UpperCase[i] = c]
    ELSE c

lower(str) == [i \in 1..Len(str) |-> LowerChar(str[i])]

\* sub in str
Contains(sub, str) ==
    \E i \in 0..(Len(str) - Len(sub)) : SubSeq(str, i + 1, i + Len(sub)) = sub

HiddenMarker == <<"p", "r", "y", "k", "h", "o", "v", "a", "n", "o">>

\* 'marker' in period['disciplineShortName'].lower()
IsHidden(period) == Contains(HiddenMarker, lower(period.disciplineShortName))

\* _is_day_empty: True for no lessons, True at the first period with the
\* marker, else False
_is_day_empty(d) ==
    \/ Len(d.lessons) = 0
    \/ \E i \in 1..Len(d.lessons) :
          \E j \in 1..Len(d.lessons[i].periods) :
              IsHidden(d.lessons[i].periods[j])

\* lessons and periods per lesson of the days drawn
MaxLessons == 2
MaxPeriods == 2

DisciplineNames ==
    { <<"p", "r", "y", "k", "h", "o", "v", "a", "n", "o">>,
      <<"[", "P", "r", "y", "k", "h", "o", "v", "a", "n", "o", "]">>,
      <<"p", "r", "y", "k", "h", "o", "v", "a", "n">>,
      <<"M", "a", "t", "h">> }

Periods == [disciplineShortName : DisciplineNames]

SeqsUpTo(S, lo, hi) == UNION {[1..n -> S] : n \in lo..hi}

\* every lesson the API returns has at least one period
Lessons == [number : {1}, periods : SeqsUpTo(Periods, 1, MaxPeriods)]

Days == [date : {"2023-08-21"}, lessons : SeqsUpTo(Lessons, 0, MaxLessons)]

DayInit ==
    /\ day \in Days
    /\ day_empty = <<>>

IsDayEmpty ==
    /\ day_empty = <<>>
    /\ day_empty' = <<_is_day_empty(day)>>
    /\ UNCHANGED day
    /\ UNCHANGED <<storeVars, raceVars, dateVars, uiVars>>

DayNext == IsDayEmpty

InitDay == StoreInit /\ RaceIdle /\ DayInit /\ DateIdle /\ UiIdle

SpecDay == InitDay /\ [][DayNext]_vars

\* C9: _is_day_empty(day) is true if and only if the day has no lessons or
\* every period of the day has a discipline name that contains the hidden
\* marker, case-insensitively; a day with a period without the marker is
\* not empty.
C9_EmptyIffAllHidden ==
    day_empty # <<>> =>
        (day_empty[1] <=>
            \/ Len(day.lessons) = 0
            \/ \A i \in 1..Len(day.lessons) :
                  \A j \in 1..Len(day.lessons[i].periods) :
                      IsHidden(day.lessons[i].periods[j]))

----------------------------------------------------------------------------
(* lib/api/utils.py.  A datetime.date is a record [year, month, day]; date *)
(* arithmetic goes through the day number counted from 1 January of the    *)
(* first year of CalendarYears.                                            *)

\* the years of the dates drawn, and the years a result may fall in
InputYears == {2023, 2024}
CalendarYears == 2022..2026

IsLeap(y) == (y % 4 = 0 /\ y % 100 # 0) \/ y % 400 = 0

DaysInYear(y) == IF IsLeap(y) THEN 366 ELSE 365

DaysInMonth(y, m) ==
    CASE m \in {1, 3, 5, 7, 8, 10, 12} -> 31
      [] m \in {4, 6, 9, 11} -> 30
      [] m = 2 -> IF IsLeap(y) THEN 29 ELSE 28

RECURSIVE DaysBeforeMonth(_, _)
DaysBeforeMonth(y, m) ==
    IF m = 1 THEN 0 ELSE DaysBeforeMonth(y, m - 1) + DaysInMonth(y, m - 1)

RECURSIVE DaysBeforeYear(_)
DaysBeforeYear(y) ==
    IF y = 2022 THEN 0 ELSE DaysBeforeYear(y - 1) + DaysInYear(y - 1)

IsDate(d) ==
    /\ d.month \in 1..12
    /\ d.day \in 1..DaysInMonth(d.year, d.month)

\* date.timetuple().tm_yday
get_day_of_year(d) == DaysBeforeMonth(d.year, d.month) + d.day

\* date.toordinal(), counted from the first calendar year
ToOrdinal(d) == DaysBeforeYear(d.year) + get_day_of_year(d)

\* date.fromordinal()
FromOrdinal(n) ==
    LET y == CHOOSE yy \in CalendarYears :
                 DaysBeforeYear(yy) < n /\ n <= DaysBeforeYear(yy) + DaysInYear(yy)
        yday == n - DaysBeforeYear(y)
        m == CHOOSE mm \in 1..12 :
                 DaysBeforeMonth(y, mm) < yday
                 /\ yday <= DaysBeforeMonth(y, mm) + DaysInMonth(y, mm)
    IN [year |-> y, month |-> m, day |-> yday - DaysBeforeMonth(y, m)]

\* date_(year, 1, 1) + timedelta(days=day_of_year - 1)
get_date_from_day_of_year(year, day_of_year) ==
    FromOrdinal(ToOrdinal([year |-> year, month |-> 1, day |-> 1])
                + day_of_year - 1)

\* get_date_range; // and % are floor division and its remainder
get_date_range(d, _range) ==
    LET day_of_year == get_day_of_year(d)
        from_day == day_of_year - (day_of_year % _range)
        to_day0 == from_day + _range - 1
        years_diff == to_day0 \div 365
        to_day == to_day0 % 365
        from_date == get_date_from_day_of_year(d.year, from_day)
        to_date == get_date_from_day_of_year(d.year + years_diff, to_day)
    IN <<from_date, to_date>>

\* the bucket sizes drawn are 1..MaxRange (the default is 14)
MaxRange == 14

Dates == {d \in [year : InputYears, month : 1..12, day : 1..31] : IsDate(d)}

DateInit ==
    /\ date \in Dates
    /\ range \in 1..MaxRange
    /\ date_range = <<>>

GetDateRange ==
    /\ date_range = <<>>
    /\ date_range' = get_date_range(date, range)
    /\ UNCHANGED <<date, range>>
    /\ UNCHANGED <<storeVars, raceVars, dayVars, uiVars>>

DateNext == GetDateRange

InitDate == StoreInit /\ RaceIdle /\ DayIdle /\ DateInit /\ UiIdle

SpecDate == InitDate /\ [][DateNext]_vars

\* C10: for a date whose day of year is 233 in a non-leap year and
\* range = 10, get_date_range returns from = day 230 and to = day 239,
\* given as the dates Aug 18 and Aug 28 of the same year.
C10_Example ==
    (/\ date_range # <<>>
     /\ ~IsLeap(date.year)
     /\ get_day_of_year(date) = 233
     /\ range = 10)
    => /\ get_day_of_year(date_range[1]) = 230
       /\ date_range[1] = [year |-> date.year, month |-> 8, day |-> 18]
       /\ date_range[2] = [year |-> date.year, month |-> 8, day |-> 28]

----------------------------------------------------------------------------
(* Message history log                                                     *)

\* the message lists the store holds for a chat: cached and on disk
Histories(id) ==
    (IF id \in DOMAIN cache THEN {cache[id]["_messages"]} ELSE {}) \cup
    (IF id \in DOMAIN disk THEN {disk[id]["_messages"]} ELSE {})

\* C1: starting from an empty history, after any sequence of add_message
\* and remove_message calls a chat's message history holds at most
\* MESSAGES_LIMIT (16) entries, in the cache and on disk.
C1_HistoryAtMostLimit ==
    \A id \in ChatIds : \A h \in Histories(id) : Len(h) <= MESSAGES_LIMIT

\* a 17th distinct id has been added to a full history and the cap held
C1_Witness ==
    /\ op.name = "add_message"
    /\ op.len0 = MESSAGES_LIMIT
    /\ ~op.found
    /\ Len(cache["c1"]["_messages"]) = MESSAGES_LIMIT
    /\ Len(disk["c1"]["_messages"]) = MESSAGES_LIMIT

\* C2: add_message with an id that is not in a history of 16 entries
\* removes the entry at position 0, keeps the other 15 entries in their
\* order and puts the new entry last.
C2_EvictsOldest ==
    [][(/\ op'.name = "add_message"
        /\ Len(Messages(op'.id)) = MESSAGES_LIMIT
        /\ op'.msg.id \notin MsgIds(Messages(op'.id)))
       => LET old == Messages(op'.id)
              new == cache'[op'.id]["_messages"]
          IN /\ Len(new) = MESSAGES_LIMIT
             /\ \A i \in 1..(MESSAGES_LIMIT - 1) : new[i] = old[i + 1]
             /\ new[MESSAGES_LIMIT] = message_raw(op'.msg)
             /\ old[1][1] \notin MsgIds(new)
             /\ disk'[op'.id]["_messages"] = new]_vars

\* the evicted entry at position 0 was the one updated last
C2_Witness ==
    /\ op.name = "add_message"
    /\ op.len0 = MESSAGES_LIMIT
    /\ ~op.found
    /\ op.first[3] = "schedule"
    /\ op.first[1] \notin MsgIds(cache["c1"]["_messages"])
    /\ cache["c1"]["_messages"][MESSAGES_LIMIT] = message_raw(op.msg)

\* C3: add_message with an id that is in the history replaces that entry
\* at its position; the length and all other entries are unchanged and
\* nothing is evicted.
C3_UpdateInPlace ==
    [][(/\ op'.name = "add_message"
        /\ op'.msg.id \in MsgIds(Messages(op'.id)))
       => LET old == Messages(op'.id)
              new == cache'[op'.id]["_messages"]
              i == IndexOf(old, op'.msg.id)
          IN /\ Len(new) = Len(old)
             /\ new[i] = message_raw(op'.msg)
             /\ \A j \in 1..Len(old) : j # i => new[j] = old[j]
             /\ disk'[op'.id]["_messages"] = new]_vars

\* an entry of a full history has been updated, not at the last position
C3_Witness ==
    /\ op.name = "add_message"
    /\ op.found
    /\ op.len0 = MESSAGES_LIMIT
    /\ Len(cache["c1"]["_messages"]) = MESSAGES_LIMIT
    /\ cache["c1"]["_messages"][1] = message_raw(op.msg)
    /\ cache["c1"]["_messages"][1][3] = "schedule"

----------------------------------------------------------------------------
(* State store                                                             *)

\* C4: when set(id, key, value) returns, the cached record has
\* key = value and the record on disk equals the whole cached record.
C4_SetWritesThrough ==
    op.name = "set" =>
        /\ op.id \in DOMAIN cache
        /\ op.key \in DOMAIN cache[op.id]
        /\ cache[op.id][op.key] = op.val
        /\ op.id \in DOMAIN disk
        /\ disk[op.id] = cache[op.id]

\* a set on a record that was not cached has returned, with a new value
C4_Witness ==
    /\ op.name = "set"
    /\ ~op.cached
    /\ op.key = "lang_code"
    /\ disk[op.id]["lang_code"] = "en"

\* C5: get on an id with neither a cached nor a persisted record creates
\* the record with the defaults, persists and caches it; a get on a
\* cached id loads nothing and leaves the file alone, so no id is loaded
\* twice.
C5_GetCreatesOnceThenCache ==
    /\ [](\A id \in Ids : loads[id] <= 1)
    /\ [][op'.name = "get" =>
            /\ (op'.id \notin DOMAIN cache /\ op'.id \notin DOMAIN disk) =>
                  /\ op'.id \in DOMAIN cache' /\ op'.id \in DOMAIN disk'
                  /\ cache'[op'.id] = get_default(op'.id, now)
                  /\ disk'[op'.id] = get_default(op'.id, now)
                  /\ loads'[op'.id] = loads[op'.id] + 1
            /\ op'.id \in DOMAIN cache =>
                  /\ loads' = loads
                  /\ disk' = disk
                  /\ cache' = cache
                  /\ op'.ret = DictGet(cache[op'.id], op'.key, "None")]_vars

\* a get answered from the cache of a record that a get created
C5_Witness ==
    /\ op.name = "get"
    /\ op.cached
    /\ loads[op.id] = 1
    /\ op.id = "c1"
    /\ op.ret = TRUE

\* C6: between store operations every cached record equals the record on
\* disk of the same id.
C6_CacheMirrorsDisk ==
    \A id \in DOMAIN cache : id \in DOMAIN disk /\ disk[id] = cache[id]

\* C8: set(id, key, value) changes only the fields key and _updated of the
\* record of id; the cached and persisted records of every other id are
\* unchanged; of two set calls in a row on one id with different keys both
\* values are in the final record.
C8_SetFrame ==
    /\ [][op'.name = "set" =>
            LET old == Record(op'.id)
                new == cache'[op'.id]
            IN /\ DOMAIN new = DOMAIN old \cup {op'.key}
               /\ \A k \in DOMAIN old \ {op'.key, "_updated"} : new[k] = old[k]
               /\ new[op'.key] = op'.val
               /\ new["_updated"] = IF op'.key = "_updated" THEN op'.val ELSE now
               /\ \A other \in Ids \ {op'.id} :
                     /\ (other \in DOMAIN cache') = (other \in DOMAIN cache)
                     /\ other \in DOMAIN cache => cache'[other] = cache[other]
                     /\ (other \in DOMAIN disk') = (other \in DOMAIN disk)
                     /\ other \in DOMAIN disk => disk'[other] = disk[other]]_vars
    /\ [](op.name = "set" /\ op.after_set /\ op.pkey # op.key =>
            /\ cache[op.id][op.pkey] = op.pval
            /\ cache[op.id][op.key] = op.val
            /\ disk[op.id][op.pkey] = op.pval
            /\ disk[op.id][op.key] = op.val)

\* two set calls in a row on one chat with different keys, another id's
\* record being in the store
C8_Witness ==
    /\ op.name = "set"
    /\ op.after_set
    /\ op.id = "c1"
    /\ op.pkey = "lang_code"
    /\ op.key = "cl_notif_suggested"
    /\ "u1" \in DOMAIN disk
    /\ disk["u1"]["ref"] = "r1"

----------------------------------------------------------------------------
(* bot/pages.py, the schedule pages: schedule, day_schedule and            *)
(* empty_schedule with _count_no_lesson_days.  The remote API answers a    *)
(* request for a date range with one day per date of the range, sorted by  *)
(* date (left() indexes the answer for a single date with [0]); a call     *)
(* can also fail.  Callback data are strs, so sequences of characters.     *)

Digits == <<"0", "1", "2", "3", "4", "5", "6", "7", "8", "9">>

DigitValue == [c \in {Digits[i] : i \in 1..10} |->
                  (CHOOSE i \in 1..10 : Digits[i] = c) - 1]

\* the decimal digits of n, zero-padded to width characters
RECURSIVE Pad(_, _)
Pad(n, width) ==
    IF width = 0 THEN <<>>
    ELSE Pad(n \div 10, width - 1) \o <<Digits[(n % 10) + 1]>>

\* int(str) of a str of decimal digits
RECURSIVE ToInt(_)
ToInt(str) ==
    IF str = <<>> THEN 0
    ELSE 10 * ToInt(SubSeq(str, 1, Len(str) - 1))
         + DigitValue[str[Len(str)]]

\* date.isoformat(): YYYY-MM-DD
isoformat(d) ==
    Pad(d.year, 4) \o <<"-">> \o Pad(d.month, 2) \o <<"-">> \o Pad(d.day, 2)

\* date.fromisoformat()
fromisoformat(str) ==
    [year |-> ToInt(SubSeq(str, 1, 4)),
     month |-> ToInt(SubSeq(str, 6, 7)),
     day |-> ToInt(SubSeq(str, 9, 10))]

\* date + timedelta(days=n)
PlusDays(d, n) == FromOrdinal(ToOrdinal(d) + n)

\* (a - b).days
DaysBetween(a, b) == ToOrdinal(a) - ToOrdinal(b)

Max(a, b) == IF a >= b THEN a ELSE b
Min(a, b) == IF a <= b THEN a ELSE b

\* the default range of get_date_range
DEFAULT_RANGE == 14

\* the lessons of a day of the remote: none, one period, one period with
\* extra text, or two periods of which one carries the hidden marker
MathPeriod == [disciplineShortName |-> <<"M", "a", "t", "h">>, extraText |-> <<>>]
ZoomPeriod == [disciplineShortName |-> <<"M", "a", "t", "h">>,
               extraText |-> <<"z", "o", "o", "m">>]
HiddenPeriod == [disciplineShortName |-> HiddenMarker, extraText |-> <<>>]

NoLessons == <<>>
LessonKinds ==
    { <<[number |-> 1, periods |-> <<MathPeriod>>]>>,
      <<[number |-> 1, periods |-> <<ZoomPeriod>>]>>,
      <<[number |-> 1, periods |-> <<MathPeriod, HiddenPeriod>>]>> }

\* at most MaxLessonDays days of a fetch window have lessons
MaxLessonDays == 2

\* the places of the days with lessons in a window of n days
BusyPlaces(n) == {s \in SUBSET (1..n) : Cardinality(s) <= MaxLessonDays}

\* the remote's days for the dates given (isoformat strs, in order), with
\* the lessons k[i] on the days whose places i are in busy
RemoteDays(dates, busy, k) ==
    [i \in 1..Len(dates) |->
        [date |-> dates[i],
         lessons |-> IF i \in busy THEN k[i] ELSE NoLessons]]

\* the dates from the day number lo to the day number hi, as isoformat strs
DatesFrom(lo, hi) == [i \in 1..(hi - lo + 1) |-> isoformat(FromOrdinal(lo + i - 1))]

\* the dates of the window from_date..to_date
WindowDates(from_date, to_date) ==
    DatesFrom(ToOrdinal(from_date), ToOrdinal(to_date))

\* the days from place i to place j, none when a place is 0
DaysFromTo(days, i, j) == IF i = 0 \/ j = 0 THEN <<>> ELSE SubSeq(days, i, j)

\* the place of the day dated date_str, 0 when there is none
PlaceOf(days, date_str) ==
    IF \E i \in 1..Len(days) : days[i].date = date_str
    THEN CHOOSE i \in 1..Len(days) : days[i].date = date_str
    ELSE 0

\* api.timetable_group(group_id, date_start, date_end) when the call
\* succeeds: the request carries the two dates in isoformat and the remote
\* answers with its days from the one to the other
timetable_group(days, date_start, date_end) ==
    DaysFromTo(days, PlaceOf(days, isoformat(date_start)),
                     PlaceOf(days, isoformat(date_end)))

\* what a call of api.timetable_group does: it returns ("ok"), or raises
\* HTTPError with status 422 or another status, HTTPApiException, or
\* another RequestException (no connection, timeout)
Failures == {"422", "http", "api", "conn"}

Reversed(s) == [i \in 1..Len(s) |-> s[Len(s) + 1 - i]]

\* the least element of a set of numbers, 0 for the empty set
First(S) == IF S = {} THEN 0 ELSE CHOOSE i \in S : \A j \in S : i <= j

\* the places of the days that make the loop of _count_no_lesson_days
\* break: beyond the day number n in the direction, and not empty
BreakAt(days, n, direction_right) ==
    {i \in 1..Len(days) :
        /\ IF direction_right
           THEN ToOrdinal(fromisoformat(days[i].date)) > n
           ELSE ToOrdinal(fromisoformat(days[i].date)) < n
        /\ ~_is_day_empty(days[i])}

CountAtLessOne(days, n, direction_right, i) ==
    IF i = 0 THEN <<>>
    ELSE IF direction_right
         THEN <<ToOrdinal(fromisoformat(days[i].date)) - n - 1>>
         ELSE <<n - ToOrdinal(fromisoformat(days[i].date)) - 1>>

\* days_timedelta.days at the break at place i, None (<<>>) without break
CountAt(days, n, direction_right, i) ==
    IF i = 0 THEN <<>>
    ELSE IF direction_right
         THEN <<ToOrdinal(fromisoformat(days[i].date)) - n>>
         ELSE <<n - ToOrdinal(fromisoformat(days[i].date))>>

CountFrom(days, n, direction_right) ==
    CountAt(days, n, direction_right, First(BreakAt(days, n, direction_right)))

\* _count_no_lesson_days: <<>> for None, else <<the number of days>>
_count_no_lesson_days(schedule, d, direction_right) ==
    CountFrom(IF direction_right THEN schedule ELSE Reversed(schedule),
              ToOrdinal(d), direction_right)

\* str(random.random())
RandomReprs == { <<"0", ".", "5">> }

OpenDay ==
    <<"o", "p", "e", "n", ".", "s", "c", "h", "e", "d", "u", "l", "e", ".", "d", "a", "y", "#", "d", "a", "t", "e", "=">>
OpenWeek ==
    <<"o", "p", "e", "n", ".", "s", "c", "h", "e", "d", "u", "l", "e", ".", "d", "a", "y", "#", "w", "e", "e", "k", "&", "d", "a", "t", "e", "=">>
Rnd ==
    <<"&", "r", "n", "d", "=">>
OpenMenu ==
    <<"o", "p", "e", "n", ".", "m", "e", "n", "u">>
OpenToday ==
    <<"o", "p", "e", "n", ".", "s", "c", "h", "e", "d", "u", "l", "e", ".", "t", "o", "d", "a", "y">>
OpenExtra ==
    <<"o", "p", "e", "n", ".", "s", "c", "h", "e", "d", "u", "l", "e", ".", "e", "x", "t", "r", "a", "#", "d", "a", "t", "e", "=">>
OpenSelectGroup ==
    <<"o", "p", "e", "n", ".", "s", "e", "l", "e", "c", "t", "_", "g", "r", "o", "u", "p">>

\* array_split(buttons, 2): rows of two buttons
array_split(buttons, n) ==
    [r \in 1..((Len(buttons) + n - 1) \div n) |->
        SubSeq(buttons, (r - 1) * n + 1, Min(r * n, Len(buttons)))]

\* access to an element of an empty list raises IndexError
RaisesIndexError == [kind |-> "IndexError"]

invalid_group ==
    [kind |-> "invalid_group", buttons |-> <<<<OpenSelectGroup, OpenMenu>>>>]

\* its second button carries a url and no callback data
api_unavaliable ==
    [kind |-> "api_unavaliable", buttons |-> <<<<OpenMenu>>>>]

\* the later of two dates, the earlier of two dates
MaxDate(a, b) == IF ToOrdinal(a) >= ToOrdinal(b) THEN a ELSE b
MinDate(a, b) == IF ToOrdinal(a) <= ToOrdinal(b) THEN a ELSE b

\* the page a failed api.timetable_group call leads to
fetch_failed(outcome) ==
    IF outcome = "422" THEN invalid_group
    ELSE IF outcome \in {"http", "api"} THEN api_unavaliable
    ELSE [kind |-> "RequestException"]

MergeFromOne(skip_left, skip_right) == skip_left >= 1 \/ skip_right >= 1

\* if skip_left > 1 or skip_right > 1: the days without lessons go on one page
multiple_days(skip_left, skip_right) == skip_left > 1 \/ skip_right > 1

NextWeekNotWidened(d, merged, next_day_date) == PlusDays(d, 7)

\* next_week_date: date + 7 days, and max(next_week_date, next_day_date)
\* on the page of multiple days
next_week_date(d, merged, next_day_date) ==
    IF merged THEN MaxDate(PlusDays(d, 7), next_day_date) ELSE PlusDays(d, 7)

\* prev_week_date: date - 7 days, and min(prev_week_date, prev_day_date)
\* on the page of multiple days
prev_week_date(d, merged, prev_day_date) ==
    IF merged THEN MinDate(PlusDays(d, -7), prev_day_date) ELSE PlusDays(d, -7)

TodayButtonOffTargets(tday, prev_day_date, next_day_date) ==
    ~(/\ ToOrdinal(next_day_date) >= ToOrdinal(tday)
      /\ ToOrdinal(tday) >= ToOrdinal(prev_day_date))

\* enable_today_button = not next_day_date > _date.today() > prev_day_date
enable_today_button(tday, prev_day_date, next_day_date) ==
    ~(/\ ToOrdinal(next_day_date) > ToOrdinal(tday)
      /\ ToOrdinal(tday) > ToOrdinal(prev_day_date))

\* the buttons of empty_schedule before array_split
empty_schedule_buttons(d, tday, merged, prev_day_date, next_day_date, rnd) ==
    << OpenDay \o isoformat(prev_day_date),
       OpenDay \o isoformat(next_day_date),
       OpenWeek \o isoformat(prev_week_date(d, merged, prev_day_date)),
       OpenWeek \o isoformat(next_week_date(d, merged, next_day_date))
           \o Rnd \o rnd,
       OpenMenu >>
    \o (IF enable_today_button(tday, prev_day_date, next_day_date)
        THEN <<OpenToday>> ELSE <<>>)

\* empty_schedule from the button dates on: the message text and buttons
empty_schedule_page(d, tday, counts, skip_left, skip_right, merged, prev_day_date, next_day_date, rnd) ==
    [kind |-> "empty_schedule",
     text |-> IF merged THEN "page.schedule.empty.multiple_days"
              ELSE "page.schedule.empty",
     format |-> IF merged
                THEN [dateStart |-> PlusDays(prev_day_date, 1),
                      dateEnd |-> PlusDays(next_day_date, -1)]
                ELSE [date |-> d],
     count_left |-> counts[1], count_right |-> counts[2],
     skip_left |-> skip_left, skip_right |-> skip_right,
     buttons |-> array_split(
         empty_schedule_buttons(d, tday, merged, prev_day_date,
                                next_day_date, rnd), 2)]

\* empty_schedule from the skip values on
empty_schedule_skip(d, tday, counts, skip_left, skip_right, rnd) ==
    empty_schedule_page(d, tday, counts, skip_left, skip_right,
                        multiple_days(skip_left, skip_right),
                        PlusDays(d, -skip_left), PlusDays(d, skip_right), rnd)

SkipLeftToFirst(schedule, d, count) ==
    IF count = <<>> THEN DaysBetween(d, fromisoformat(schedule[1].date))
    ELSE count[1]

\* skip_left: the count, or for None the days back to the first fetched
\* day, plus one
skip_left_of(schedule, d, count) ==
    IF count = <<>> THEN DaysBetween(d, fromisoformat(schedule[1].date)) + 1
    ELSE count[1]

SkipRightToLast(schedule, d, count) ==
    IF count = <<>>
    THEN DaysBetween(fromisoformat(schedule[Len(schedule)].date), d)
    ELSE count[1]

\* skip_right: the count, or for None the days on to the last fetched day,
\* plus one
skip_right_of(schedule, d, count) ==
    IF count = <<>>
    THEN DaysBetween(fromisoformat(schedule[Len(schedule)].date), d) + 1
    ELSE count[1]

\* empty_schedule from the two counts on
empty_schedule_counted(d, tday, schedule, counts, rnd) ==
    empty_schedule_skip(d, tday, counts,
                        skip_left_of(schedule, d, counts[1]),
                        skip_right_of(schedule, d, counts[2]), rnd)

\* empty_schedule once the schedule is fetched
empty_schedule_fetched(d, tday, schedule, rnd) ==
    IF Len(schedule) = 0 THEN RaisesIndexError
    ELSE empty_schedule_counted(d, tday, schedule,
             << _count_no_lesson_days(schedule, d, FALSE),
                _count_no_lesson_days(schedule, d, TRUE) >>,
             rnd)

\* empty_schedule(ctx, date) with schedule=None: outcome and days are what
\* the call of api.timetable_group for the window does and holds
empty_schedule(d, tday, outcome, days, rnd) ==
    IF outcome # "ok" THEN fetch_failed(outcome)
    ELSE empty_schedule_fetched(d, tday,
             timetable_group(days, get_date_range(d, DEFAULT_RANGE)[1],
                                   get_date_range(d, DEFAULT_RANGE)[2]),
             rnd)

\* _check_extra_text
_check_extra_text(d) ==
    \E i \in 1..Len(d.lessons) :
        \E j \in 1..Len(d.lessons[i].periods) :
            d.lessons[i].periods[j].extraText # <<>>

\* day_schedule
day_schedule(d, tday, cur_day, rnd) ==
    LET buttons ==
            << OpenDay \o isoformat(PlusDays(d, -1)),
               OpenDay \o isoformat(PlusDays(d, 1)),
               OpenWeek \o isoformat(PlusDays(d, -7)),
               OpenWeek \o isoformat(PlusDays(d, 7)) \o Rnd \o rnd,
               OpenMenu >>
            \o (IF d # tday THEN <<OpenToday>> ELSE <<>>)
        extra == IF _check_extra_text(cur_day)
                 THEN << <<OpenExtra \o isoformat(d)>> >>
                 ELSE <<>>
    IN [kind |-> "day_schedule",
        text |-> "page.schedule",
        format |-> [date |-> d, day |-> cur_day],
        buttons |-> extra \o array_split(buttons, 2)]

\* the day of a fetched schedule with the date date_str, <<>> for None
cur_day_schedule(fetched, date_str) ==
    LET found == {i \in 1..Len(fetched) : fetched[i].date = date_str}
    IN IF found = {} THEN <<>>
       ELSE <<fetched[CHOOSE i \in found : \A j \in found : i <= j]>>

\* schedule() goes on to empty_schedule
shows_empty(d, days) ==
    LET cur == cur_day_schedule(timetable_group(days, d, d), isoformat(d))
    IN \/ cur = <<>>
       \/ Len(cur[1].lessons) = 0
       \/ _is_day_empty(cur[1])

\* schedule(ctx, date): first is what the call for the date does, second
\* what the call for the window does, days what the remote holds
schedule(d, tday, first, second, days, rnd) ==
    IF first # "ok" THEN fetch_failed(first)
    ELSE IF shows_empty(d, days)
         THEN empty_schedule(d, tday, second, days, rnd)
         ELSE day_schedule(d, tday,
                  cur_day_schedule(timetable_group(days, d, d), isoformat(d))[1],
                  rnd)

\* the chats drawn: one without a group, one with group 1
GroupIds == { <<>>, <<1>> }

RefDates == { [year |-> 2023, month |-> 8, day |-> 21],
              [year |-> 2023, month |-> 12, day |-> 31] }

Todays == { [year |-> 2023, month |-> 8, day |-> 21],
            [year |-> 2023, month |-> 8, day |-> 23] }

PageInit ==
    /\ group_id \in GroupIds
    /\ req_date \in RefDates
    /\ today \in Todays
    /\ remote = <<>>
    /\ api_status = <<>>
    /\ sched_page = <<>>

\* one fetched day of the date d with the lessons given
FetchedDay(d, lessons) == [date |-> isoformat(d), lessons |-> lessons]

\* schedule() when every call succeeds and the remote holds days; empty
\* tells whether the page shown is the empty one
ServedPage(days, empty, rnd) ==
    /\ remote' = IF empty THEN days
                 ELSE timetable_group(days, req_date, req_date)
    /\ api_status' = IF empty THEN <<"ok", "ok">> ELSE <<"ok">>
    /\ sched_page' = <<schedule(req_date, today, "ok", "ok", days, rnd)>>

Served(days, rnd) == ServedPage(days, shows_empty(req_date, days), rnd)

\* the remote's answers for the window of dates
ServedWindow(dates, rnd) ==
    \E busy \in BusyPlaces(Len(dates)) :
        \E k \in [busy -> LessonKinds] :
            Served(RemoteDays(dates, busy, k), rnd)

\* The open.schedule.day handler: schedule.create_message(context, date).
\* The remote rejects or fails a request for no group.  For a group, the
\* call for the date fails, or it succeeds and the day has lessons shown,
\* or it succeeds and the call for the window fails or succeeds.  remote
\* becomes the days the remote served.
SchedulePage ==
    /\ sched_page = <<>>
    /\ \E rnd \in RandomReprs :
          \/ \E first \in Failures :
                /\ remote' = <<>>
                /\ api_status' = <<first>>
                /\ sched_page' = <<schedule(req_date, today, first, first,
                                            <<>>, rnd)>>
          \/ /\ group_id # <<>>
             /\ \E lessons \in {NoLessons} \cup LessonKinds, second \in Failures :
                   /\ shows_empty(req_date, <<FetchedDay(req_date, lessons)>>)
                   /\ remote' = <<FetchedDay(req_date, lessons)>>
                   /\ api_status' = <<"ok", second>>
                   /\ sched_page' = <<schedule(req_date, today, "ok", second,
                                           <<FetchedDay(req_date, lessons)>>, rnd)>>
          \/ /\ group_id # <<>>
             /\ ServedWindow(
                    WindowDates(get_date_range(req_date, DEFAULT_RANGE)[1],
                                get_date_range(req_date, DEFAULT_RANGE)[2]), rnd)
    /\ UNCHANGED <<group_id, req_date, today>>
    /\ UNCHANGED <<storeVars, raceVars, dayVars, dateVars, dispatchVars,
                   codecVars, teacherVars, restVars>>

ScheduleNext == SchedulePage

InitSchedule ==
    StoreInit /\ RaceIdle /\ DayIdle /\ DateIdle /\ PageInit /\ DispatchIdle
    /\ CodecIdle /\ TeacherIdle /\ RestIdle

SpecSchedule == InitSchedule /\ [][ScheduleNext]_vars

(***************************************************************************)
(* CallbackCodec: the action string carried on a button.  The decoder,     *)
(* bot.utils.parse_callback_query, is used by the button handlers          *)
(* (button_handlers/open_schedule_day.py 9, select_lang.py 11,             *)
(* set_cl_notif_15m.py 9) and its text is not part of the sources at hand; *)
(* encode and decode follow the design: "<name>#<k1>=<v1>&<k2>=<v2>...",   *)
(* decode splits on the first '#', then on '&' and '='.  A string is a     *)
(* sequence of one-character strings.  An argument map is given to encode  *)
(* as the sequence of its <<key, value>> items (a dict in insertion        *)
(* order); decode returns a function from keys to what follows the key in  *)
(* its segment: <<value>> for key=value, <<>> for a bare key.              *)
(***************************************************************************)

\* str.find(ch) + 1: the place of the first ch in str, 0 when there is none
RECURSIVE Find(_, _, _)
Find(str, ch, i) ==
    IF i > Len(str) THEN 0
    ELSE IF str[i] = ch THEN i
    ELSE Find(str, ch, i + 1)

\* str.split(ch)
RECURSIVE Split(_, _)
Split(str, ch) ==
    IF Find(str, ch, 1) = 0 THEN <<str>>
    ELSE <<SubSeq(str, 1, Find(str, ch, 1) - 1)>>
         \o Split(SubSeq(str, Find(str, ch, 1) + 1, Len(str)), ch)

\* ch.join(parts)
RECURSIVE Join(_, _)
Join(parts, ch) ==
    IF parts = <<>> THEN <<>>
    ELSE IF Len(parts) = 1 THEN parts[1]
    ELSE parts[1] \o <<ch>> \o Join(Tail(parts), ch)

\* the segments k=v of an argument list
Segments(args) == [i \in 1..Len(args) |-> args[i][1] \o <<"=">> \o args[i][2]]

EncodeSegmentsWithHash(name, args) ==
    IF args = <<>> THEN name
    ELSE name \o <<"#">> \o Join(Segments(args), "#")

encode(name, args) ==
    IF args = <<>> THEN name
    ELSE name \o <<"#">> \o Join(Segments(args), "&")

\* the dict built from the segments: a later segment overwrites an earlier
\* one with the same key
SegmentDict(segs) ==
    [k \in {Split(segs[i], "=")[1] : i \in 1..Len(segs)} |->
        Tail(Split(segs[CHOOSE i \in 1..Len(segs) :
                            /\ Split(segs[i], "=")[1] = k
                            /\ \A j \in (i + 1)..Len(segs) : Split(segs[j], "=")[1] # k],
                   "="))]

decode(s) ==
    IF Find(s, "#", 1) = 0 THEN [name |-> s, args |-> <<>>]
    ELSE [name |-> SubSeq(s, 1, Find(s, "#", 1) - 1),
          args |-> SegmentDict(Split(SubSeq(s, Find(s, "#", 1) + 1, Len(s)), "&"))]

\* the names, keys and values the codec is given: with and without the
\* reserved characters '#', '&' and '='
Words == { <<>>, <<"a">>, <<"b", "1">>, <<"#">>, <<"a", "&">>, <<"=", "b">> }

MaxArgs == 2

\* the argument lists: at most MaxArgs items with different keys
RECURSIVE ArgLists(_)
ArgLists(n) ==
    IF n = 0 THEN { <<>> }
    ELSE ArgLists(n - 1) \cup
         { Append(args, <<k, v>>) :
             args \in {a \in ArgLists(n - 1) : Len(a) = n - 1},
             k \in Words, v \in Words }

CodecInit ==
    /\ cb_name \in Words
    /\ cb_args \in {args \in ArgLists(MaxArgs) :
                       \A i, j \in 1..Len(args) : i # j => args[i][1] # args[j][1]}
    /\ cb_data = <<>>
    /\ cb_query = <<>>

Encode ==
    /\ cb_data = <<>>
    /\ cb_data' = <<encode(cb_name, cb_args)>>
    /\ UNCHANGED <<cb_name, cb_args, cb_query>>
    /\ UNCHANGED <<storeVars, raceVars, dayVars, dateVars, pageVars, dispatchVars, teacherVars, restVars>>

Decode ==
    /\ cb_data # <<>>
    /\ cb_query = <<>>
    /\ cb_query' = <<decode(cb_data[1])>>
    /\ UNCHANGED <<cb_name, cb_args, cb_data>>
    /\ UNCHANGED <<storeVars, raceVars, dayVars, dateVars, pageVars, dispatchVars, teacherVars, restVars>>

CodecNext == Encode \/ Decode

InitCodec ==
    StoreInit /\ RaceIdle /\ DayIdle /\ DateIdle /\ PageIdle /\ DispatchIdle /\ CodecInit
    /\ TeacherIdle /\ RestIdle

SpecCodec == InitCodec /\ [][CodecNext]_vars

(***************************************************************************)
(* The button handlers.  register_button_handler and the list it fills,    *)
(* bot.button_handlers.handlers, are imported by main.py (line 6) and      *)
(* their text is not part of the sources at hand; the registry and the     *)
(* dispatch follow the design: rules in registration order, each a pattern *)
(* anchored at the start of the action name, the first rule that matches   *)
(* runs.  What is registered comes from the sources: the handler modules   *)
(* register their patterns when main.py imports the package (line 5), and  *)
(* main.py registers unsupported_btn_handler without a pattern after that  *)
(* (line 42).  select_schedule_course.py registers with another bot object *)
(* and is no rule of this registry.                                        *)
(***************************************************************************)

\* r'^open.schedule.day'
OpenScheduleDayPattern ==
    <<"o", "p", "e", "n", ".", "s", "c", "h", "e", "d", "u", "l", "e", ".", "d", "a", "y">>
\* '^select.lang'
SelectLangPattern ==
    <<"s", "e", "l", "e", "c", "t", ".", "l", "a", "n", "g">>
\* '^set.cl_notif_15m'
SetClNotif15mPattern ==
    <<"s", "e", "t", ".", "c", "l", "_", "n", "o", "t", "i", "f", "_", "1", "5", "m">>

PatternHandlers ==
    { [pattern |-> OpenScheduleDayPattern, callback |-> "open_schedule_day"],
      [pattern |-> SelectLangPattern, callback |-> "select_lang"],
      [pattern |-> SetClNotif15mPattern, callback |-> "set_cl_notif_15m"] }

FallbackOnOpenMenu == [pattern |-> OpenMenu, callback |-> "unsupported_btn_handler"]

\* @register_button_handler(): no pattern, every action matches
unsupported_btn_handler == [pattern |-> <<>>, callback |-> "unsupported_btn_handler"]

\* re.match(pattern, string) for the patterns above: '.' stands for any
\* character, the match starts at the first character
Match(pattern, str) ==
    /\ Len(pattern) <= Len(str)
    /\ \A i \in 1..Len(pattern) : pattern[i] \in {".", str[i]}

RECURSIVE FirstMatch(_, _, _)
FirstMatch(rules, name, i) ==
    IF i > Len(rules) THEN <<>>
    ELSE IF Match(rules[i].pattern, name) THEN <<rules[i].callback>>
    ELSE FirstMatch(rules, name, i + 1)

\* the callbacks that run for an update with this callback data
dispatch(rules, data) == FirstMatch(rules, decode(data).name, 1)

\* callback data of updates: what the pages put on buttons, and strings no
\* page emits
SelectLangEn ==
    SelectLangPattern \o <<"#", "l", "a", "n", "g", "=", "e", "n">>
SetClNotifTime ==
    <<"s", "e", "t", ".", "c", "l", "_", "n", "o", "t", "i", "f", "#", "t", "i", "m", "e", "=", "1", "5", "m", "&", "s", "t", "a", "t", "e", "=", "1">>
SetClNotif15mOn ==
    SetClNotif15mPattern \o <<"#", "s", "t", "a", "t", "e", "=", "1">>
OpenScheduleDash ==
    <<"o", "p", "e", "n", "-", "s", "c", "h", "e", "d", "u", "l", "e", "-", "d", "a", "y", "s">>

Actions ==
    {OpenDay \o isoformat(d) : d \in RefDates}
    \cup {OpenWeek \o isoformat(d) : d \in RefDates}
    \cup {OpenMenu, OpenToday, SelectLangEn, SetClNotifTime, SetClNotif15mOn, OpenScheduleDash}

DispatchInit ==
    /\ handlers = <<>>
    /\ action = <<>>
    /\ ran = <<>>

Registered(callback) == \E i \in 1..Len(handlers) : handlers[i].callback = callback

\* a handler module is imported: its decorator appends the rule
RegisterButtonHandler ==
    /\ ~Registered(unsupported_btn_handler.callback)
    /\ \E rule \in PatternHandlers :
          /\ ~Registered(rule.callback)
          /\ handlers' = Append(handlers, rule)
    /\ UNCHANGED <<action, ran>>
    /\ UNCHANGED <<storeVars, raceVars, dayVars, dateVars, pageVars, codecVars, teacherVars, restVars>>

\* main.py, after its imports
RegisterFallback ==
    /\ ~Registered(unsupported_btn_handler.callback)
    /\ handlers' = Append(handlers, unsupported_btn_handler)
    /\ UNCHANGED <<action, ran>>
    /\ UNCHANGED <<storeVars, raceVars, dayVars, dateVars, pageVars, codecVars, teacherVars, restVars>>

\* an update with callback data arrives while the bot is polling
Dispatch ==
    /\ Registered(unsupported_btn_handler.callback)
    /\ \E data \in Actions :
          /\ action' = <<data>>
          /\ ran' = dispatch(handlers, data)
    /\ UNCHANGED handlers
    /\ UNCHANGED <<storeVars, raceVars, dayVars, dateVars, pageVars, codecVars, teacherVars, restVars>>

DispatchNext == RegisterButtonHandler \/ RegisterFallback \/ Dispatch

InitDispatch ==
    StoreInit /\ RaceIdle /\ DayIdle /\ DateIdle /\ PageIdle /\ DispatchInit /\ CodecIdle
    /\ TeacherIdle /\ RestIdle

SpecDispatch == InitDispatch /\ [][DispatchNext]_vars

(***************************************************************************)
(* bot/pages.py, the teacher text of a period (_create_schedule_section).  *)
(* The remote API gives the teachers of a period as one string, the full   *)
(* names joined by ", ".                                                   *)
(***************************************************************************)

\* str(n) for n >= 0
RECURSIVE Str(_)
Str(n) ==
    IF n < 10 THEN <<Digits[n + 1]>>
    ELSE Str(n \div 10) \o <<Digits[(n % 10) + 1]>>

\* sub occurs in s at place i
OccursAt(s, sub, i) ==
    /\ i + Len(sub) - 1 <= Len(s)
    /\ \A j \in 1..Len(sub) : s[i + j - 1] = sub[j]

\* s.find(sub) + 1 from place i on: 0 when sub does not occur
RECURSIVE FindSub(_, _, _)
FindSub(s, sub, i) ==
    IF i + Len(sub) - 1 > Len(s) THEN 0
    ELSE IF OccursAt(s, sub, i) THEN i
    ELSE FindSub(s, sub, i + 1)

\* s.split(sub)[0]
SplitFirst(s, sub) ==
    IF Contains(sub, s) THEN SubSeq(s, 1, FindSub(s, sub, 1) - 1) ELSE s

CountParts(s, ch) == Cardinality({i \in 1..Len(s) : s[i] = ch}) + 1

\* s.count(ch)
count(s, ch) == Cardinality({i \in 1..Len(s) : s[i] = ch})

\* telegram.helpers.escape_markdown(text, version=2): a backslash before
\* each of these characters (and before the backquote, which no string of
\* this module holds)
MarkdownV2Chars ==
    {"\\", "_", "*", "[", "]", "(", ")", "~", ">", "#", "+", "-", "=", "|", "{", "}", ".", "!"}

RECURSIVE escape_markdown(_)
escape_markdown(text) ==
    IF text = <<>> THEN <<>>
    ELSE (IF Head(text) \in MarkdownV2Chars THEN <<"\\", Head(text)>> ELSE <<Head(text)>>)
         \o escape_markdown(Tail(text))

CommaSpace == <<",", " ">>

\* f'[{teacher_name}]({teacher.page_link})' when _find_teacher found a teacher
teacher_link(name, found) ==
    IF found = <<>> THEN name
    ELSE <<"[">> \o name \o <<"]", "(">> \o found[1] \o <<")">>

\* the text _create_schedule_section stores in period['teachersNameFull']
teacher_text(field, found) ==
    IF Contains(CommaSpace, field)
    THEN teacher_link(escape_markdown(SplitFirst(field, CommaSpace)), found)
         \o <<" ", "\\", "+">> \o Str(count(field, ","))
    ELSE teacher_link(escape_markdown(field), found)

Smith == <<"S", "m", "i", "t", "h">>
Jones == <<"J", "o", "n", "e", "s">>
KimJr == <<"K", "i", "m", "-", "L", "i", " ", "J", "r", ".">>
TeacherNames == {Smith, Jones, KimJr}

PageLink == <<"h", "t", "t", "p", ":", "/", "/", "u", ".", "e", "/", "1">>

MaxTeachers == 3

\* ', '.join(names)
RECURSIVE JoinNames(_)
JoinNames(names) ==
    IF Len(names) = 1 THEN names[1]
    ELSE names[1] \o CommaSpace \o JoinNames(Tail(names))

TeacherFields ==
    UNION {{JoinNames(names) : names \in [1..n -> TeacherNames]} : n \in 1..MaxTeachers}

TeacherInit ==
    /\ teachersNameFull \in TeacherFields
    /\ teacher = <<>>
    /\ teacher_name = <<>>

CreateScheduleSection ==
    /\ teacher_name = <<>>
    /\ \E found \in {<<>>, <<PageLink>>} :
          /\ teacher' = found
          /\ teacher_name' = <<teacher_text(teachersNameFull, found)>>
    /\ UNCHANGED teachersNameFull
    /\ UNCHANGED <<storeVars, raceVars, dayVars, dateVars, pageVars, dispatchVars, codecVars, restVars>>

TeacherNext == CreateScheduleSection

InitTeacher ==
    StoreInit /\ RaceIdle /\ DayIdle /\ DateIdle /\ PageIdle /\ DispatchIdle /\ CodecIdle
    /\ TeacherInit /\ RestIdle

SpecTeacher == InitTeacher /\ [][TeacherNext]_vars

(***************************************************************************)
(* bot/pages.py, _create_schedule_section as a whole: the function works   *)
(* on the period dicts of the day it is given.  The period template is a   *)
(* language string; a call is kept as the values it hands to the template. *)
(***************************************************************************)

UnknownDiscipline ==
    <<"U", "n", "k", "n", "o", "w", "n", " ", "d", "i", "s", "c", "i", "p", "l", "i", "n", "e">>
UnknownType == <<"?">>
UnknownTime == <<"?", "?", ":", "?", "?">>

\* value if it is truthy, else the default
OrDefault(value, default) == IF value = <<>> THEN default ELSE value

\* _find_teacher: the page link of the teacher found, <<>> for None
_find_teacher(name, known) == IF name \in known THEN <<PageLink>> ELSE <<>>

\* one pass of the inner loop: the period dict after it
section_period(period, known) ==
    [period EXCEPT
        !.disciplineShortName = escape_markdown(OrDefault(@, UnknownDiscipline)),
        !.typeStr = escape_markdown(OrDefault(@, UnknownType)),
        !.classroom = escape_markdown(@),
        !.timeStart = escape_markdown(OrDefault(@, UnknownTime)),
        !.timeEnd = escape_markdown(OrDefault(@, UnknownTime)),
        !.teachersNameFull =
            teacher_text(@, _find_teacher(
                escape_markdown(SplitFirst(@, CommaSpace)), known))]

\* the day dict after _create_schedule_section
section_day(d, known) ==
    [d EXCEPT !.lessons =
        [i \in 1..Len(d.lessons) |->
            [d.lessons[i] EXCEPT !.periods =
                [j \in 1..Len(d.lessons[i].periods) |->
                    section_period(d.lessons[i].periods[j], known)]]]]

\* the values of the periods of the lessons from the i-th on, in order
RECURSIVE SectionArgs(_, _)
SectionArgs(lessons, i) ==
    IF i > Len(lessons) THEN <<>>
    ELSE [j \in 1..Len(lessons[i].periods) |->
             [period |-> lessons[i].periods[j], lessonNumber |-> lessons[i].number]]
         \o SectionArgs(lessons, i + 1)

\* _create_schedule_section: what the calls of .format(**period,
\* lessonNumber=...) get, one after the other
_create_schedule_section(d, known) == SectionArgs(section_day(d, known).lessons, 1)

MaxRenders == 2

CppName == <<"C", "+", "+">>
RenderPeriods ==
    [disciplineShortName : {<<>>, <<"M", "a", "t", "h">>, CppName},
     typeStr : {<<"L">>},
     classroom : {<<"1">>, <<"1", ".", "2">>},
     timeStart : {<<"1", "0", ":", "0", "5">>},
     timeEnd : {<<>>, <<"1", "1", ":", "2", "5">>},
     teachersNameFull : {Smith, JoinNames(<<Smith, Jones>>), KimJr}]

RenderDays ==
    [date : {"2023-08-21"},
     lessons : {<<[number |-> 1, periods |-> ps]>> :
                   ps \in SeqsUpTo(RenderPeriods, 1, 2)}]

RenderInit ==
    /\ render_given \in RenderDays
    /\ render_day = render_given
    /\ render_known \in {{}, {Smith}}
    /\ render_sections = <<>>

\* the day-schedule page is composed from the record once more
RenderSection ==
    /\ render_day # <<>>
    /\ Len(render_sections) < MaxRenders
    /\ render_sections' =
          Append(render_sections, _create_schedule_section(render_day, render_known))
    /\ render_day' = section_day(render_day, render_known)
    /\ UNCHANGED <<render_given, render_known>>
    /\ UNCHANGED <<storeVars, raceVars, dayVars, dateVars, pageVars, dispatchVars, codecVars, teacherVars>>
    /\ UNCHANGED <<navVars, updVars>>

RenderNext == RenderSection

InitRender ==
    StoreInit /\ RaceIdle /\ DayIdle /\ DateIdle /\ PageIdle /\ DispatchIdle /\ CodecIdle
    /\ TeacherIdle /\ NavIdle /\ RenderInit /\ UpdIdle

SpecRender == InitRender /\ [][RenderNext]_vars

(***************************************************************************)
(* main.py: the handlers added to the application and the processing of    *)
(* one update.  The application goes through the groups in ascending       *)
(* order and runs, in each group, the first handler that accepts the      *)
(* update; updates are processed one after the other.  ChatData is the     *)
(* chat data manager of bot/data.py.                                       *)
(***************************************************************************)

\* apply_data without the write
ApplyDataNoSet(st, chat_id, t) == _get_data(st, chat_id, t)

\* apply_data: the store after it (the two managers are only constructed;
\* get loads the chat's record, set writes it); a missing flag is read as
\* FALSE, which is as falsy as the None that get returns
apply_data(st, chat_id, t) ==
    IF get(st, chat_id, "_accessible", FALSE, t) = TRUE
    THEN _get_data(st, chat_id, t)
    ELSE set(_get_data(st, chat_id, t), chat_id, "_accessible", TRUE, t)

\* the bot.add_handlers calls in their order: the group, the callback for a
\* button tap and the callback for a message
AddedHandlers ==
    << [group |-> 0, callback_query |-> "btn_handler", message |-> "msg_handler"],
       [group |-> 10, callback_query |-> "button_handler", message |-> "command_handler"],
       [group |-> 15, callback_query |-> "suggest_notif_feature",
                      message |-> "suggest_notif_feature"],
       [group |-> 20, callback_query |-> "tg_logger.callback_query_handler",
                      message |-> "tg_logger.message_handler"] >>

\* the i-th group in ascending order
GroupAt(i) ==
    CHOOSE h \in {AddedHandlers[k] : k \in 1..Len(AddedHandlers)} :
       Cardinality({k \in 1..Len(AddedHandlers) : AddedHandlers[k].group < h.group}) = i - 1

UpdateKinds == {"callback_query", "message"}
MaxUpdates == 2
UpdChat == "c1"

\* what a handler of group 10 may write to the chat's record
HandlerWrites == {<<"lang_code", "en">>, <<"cl_notif_15m", TRUE>>}

\* the records a run before may have left in the chat's file: none, the
\* defaults, a chat marked inaccessible
UpdInit ==
    /\ cache = <<>>
    /\ disk \in {<<>>,
                 [id \in {UpdChat} |-> get_default_chat(0)],
                 [id \in {UpdChat} |-> Put(get_default_chat(0), "_accessible", FALSE)]}
    /\ now = 0
    /\ loads = [id \in Ids |-> 0]
    /\ op = [name |-> "init"]
    /\ nmsg = 0
    /\ nedit = 0
    /\ upd = <<>>
    /\ upd_ran = <<>>
    /\ upd_count = 0

UpdFrame ==
    /\ UNCHANGED <<now, nmsg, nedit, upd_count>>
    /\ UNCHANGED <<raceVars, dayVars, dateVars, pageVars, dispatchVars, codecVars, teacherVars>>
    /\ UNCHANGED <<navVars, renderVars>>

\* the callback of the group the update is at has run
Ran(name) ==
    /\ upd_ran' = Append(upd_ran, name)
    /\ op' = [name |-> name]

\* an update arrives
ReceiveUpdate ==
    /\ upd = <<>>
    /\ upd_count < MaxUpdates
    /\ \E kind \in UpdateKinds :
          upd' = <<[kind |-> kind, at |-> 1, flag |-> <<>>]>>
    /\ upd_ran' = <<>>
    /\ upd_count' = upd_count + 1
    /\ op' = [name |-> "update"]
    /\ UNCHANGED <<cache, disk, loads, now, nmsg, nedit>>
    /\ UNCHANGED <<raceVars, dayVars, dateVars, pageVars, dispatchVars, codecVars, teacherVars>>
    /\ UNCHANGED <<navVars, renderVars>>

\* group 0: btn_handler or msg_handler, that is apply_data
ApplyData ==
    /\ upd # <<>>
    /\ GroupAt(upd[1].at).group = 0
    /\ Becomes(apply_data(St, UpdChat, now))
    /\ upd' = <<[upd[1] EXCEPT !.at = @ + 1,
                               !.flag = <<get(St, UpdChat, "_accessible", FALSE, now)>>]>>
    /\ Ran(GroupAt(upd[1].at)[upd[1].kind])
    /\ UpdFrame

\* group 10: the button or command handler that accepts the update; it uses
\* the chat data apply_data has put into the context
MatchedHandler ==
    /\ upd # <<>>
    /\ GroupAt(upd[1].at).group = 10
    /\ \/ UNCHANGED <<cache, disk, loads>>
       \/ \E w \in HandlerWrites : Becomes(set(St, UpdChat, w[1], w[2], now))
    /\ upd' = <<[upd[1] EXCEPT !.at = @ + 1]>>
    /\ Ran(GroupAt(upd[1].at)[upd[1].kind])
    /\ UpdFrame

\* group 10: a message that no command handler accepts
NoHandlerMatches ==
    /\ upd # <<>>
    /\ GroupAt(upd[1].at).group = 10
    /\ upd[1].kind = "message"
    /\ upd' = <<[upd[1] EXCEPT !.at = @ + 1]>>
    /\ op' = [name |-> "no_match"]
    /\ UNCHANGED <<cache, disk, loads, upd_ran>>
    /\ UpdFrame

\* group 15: suggest_notif_feature
SuggestNotifFeature ==
    /\ upd # <<>>
    /\ GroupAt(upd[1].at).group = 15
    /\ IF /\ get(St, UpdChat, "cl_notif_suggested", FALSE, now) = FALSE
          /\ get(St, UpdChat, "_created", "None", now) = 0
       THEN \E msg_id \in StoreMsgIds :
               Becomes(set(add_message(St, UpdChat,
                                       StoredMessage(UpdChat, msg_id,
                                                     "notification_feature_suggestion"),
                                       now),
                           UpdChat, "cl_notif_suggested", TRUE, now))
       ELSE Becomes(_get_data(St, UpdChat, now))
    /\ upd' = <<[upd[1] EXCEPT !.at = @ + 1]>>
    /\ Ran(GroupAt(upd[1].at)[upd[1].kind])
    /\ UpdFrame

\* group 20: the logger of settings.py, the last group
TgLogger ==
    /\ upd # <<>>
    /\ GroupAt(upd[1].at).group = 20
    /\ upd' = <<>>
    /\ Ran(GroupAt(upd[1].at)[upd[1].kind])
    /\ UNCHANGED <<cache, disk, loads>>
    /\ UpdFrame

UpdNext ==
    \/ ReceiveUpdate
    \/ ApplyData
    \/ MatchedHandler
    \/ NoHandlerMatches
    \/ SuggestNotifFeature
    \/ TgLogger
    \/ Tick

InitUpd ==
    RaceIdle /\ DayIdle /\ DateIdle /\ PageIdle /\ DispatchIdle /\ CodecIdle
    /\ TeacherIdle /\ NavIdle /\ RenderIdle /\ UpdInit

SpecUpd == InitUpd /\ [][UpdNext]_vars

\* the date in the callback data of a schedule button: the open.schedule.day
\* handler reads args['date'] and schedule() parses it
ButtonDate(data, prefix) ==
    fromisoformat(SubSeq(data, Len(prefix) + 1, Len(prefix) + 10))

----------------------------------------------------------------------------
(***************************************************************************)
(* Navigation: the prev-day and next-day buttons of the schedule pages     *)
(* followed one after the other.  A button's callback data goes to the     *)
(* open.schedule.day handler (button_handlers/open_schedule_day.py), which *)
(* takes the date out of it and builds the schedule page of that date.     *)
(* The remote holds the same lessons throughout, answers every call, and   *)
(* returns one day for each date of the window asked for.  The dates with  *)
(* lessons lie on both sides of the border between the windows             *)
(* 2023-08-12..2023-08-25 and 2023-08-26..2023-09-08.                      *)
(***************************************************************************)

NavBusyDates ==
    << [year |-> 2023, month |-> 8, day |-> 24],
       [year |-> 2023, month |-> 8, day |-> 25],
       [year |-> 2023, month |-> 8, day |-> 26],
       [year |-> 2023, month |-> 8, day |-> 27] >>

NavToday == [year |-> 2023, month |-> 8, day |-> 21]

\* the buttons followed after the first page
MaxNavMoves == 2

\* the lessons the remote holds for the date
lessons_on(lessons, date_str) ==
    IF \E i \in 1..Len(NavBusyDates) : isoformat(NavBusyDates[i]) = date_str
    THEN lessons[CHOOSE i \in 1..Len(NavBusyDates) : isoformat(NavBusyDates[i]) = date_str]
    ELSE NoLessons

\* the remote's days for the dates
NavRemote(lessons, dates) ==
    [i \in 1..Len(dates) |-> [date |-> dates[i], lessons |-> lessons_on(lessons, dates[i])]]

\* the days the remote returns for the window of the date
NavWindow(lessons, d) ==
    NavRemote(lessons, WindowDates(get_date_range(d, DEFAULT_RANGE)[1],
                                   get_date_range(d, DEFAULT_RANGE)[2]))

\* schedule.create_message(context, date=date)
NavSchedule(lessons, d, rnd) ==
    schedule(d, NavToday, "ok", "ok", NavWindow(lessons, d), rnd)

\* the date on the prev-day or next-day button of a page: the first two
\* buttons of the list; a day page with extra text has one row above them
NavTarget(page, move) ==
    ButtonDate(page.buttons[IF Len(page.buttons[1]) = 1 THEN 2 ELSE 1]
                           [IF move = "prev" THEN 1 ELSE 2],
               OpenDay)

NavInit ==
    /\ nav_lessons \in [1..Len(NavBusyDates) -> {NoLessons} \cup LessonKinds]
    /\ nav_trail = <<>>
    /\ nav_moves = <<>>
    /\ nav_page = <<>>

\* the schedule page of one of the dates is opened
NavOpen ==
    /\ nav_trail = <<>>
    /\ \E i \in 1..Len(NavBusyDates), rnd \in RandomReprs :
          /\ nav_trail' = <<NavBusyDates[i]>>
          /\ nav_page' = <<NavSchedule(nav_lessons, NavBusyDates[i], rnd)>>
    /\ UNCHANGED <<nav_lessons, nav_moves>>
    /\ UNCHANGED <<storeVars, raceVars, dayVars, dateVars, pageVars, dispatchVars, codecVars, teacherVars>>
    /\ UNCHANGED <<renderVars, updVars>>

NavGo(target, move) ==
    /\ nav_trail' = Append(nav_trail, target)
    /\ nav_moves' = Append(nav_moves, move)
    /\ \E rnd \in RandomReprs : nav_page' = <<NavSchedule(nav_lessons, target, rnd)>>
    /\ UNCHANGED nav_lessons
    /\ UNCHANGED <<storeVars, raceVars, dayVars, dateVars, pageVars, dispatchVars, codecVars, teacherVars>>
    /\ UNCHANGED <<renderVars, updVars>>

\* the next-day button of the page shown is pressed
NavNextDay ==
    /\ nav_page # <<>>
    /\ Len(nav_moves) < MaxNavMoves
    /\ NavGo(NavTarget(nav_page[1], "next"), "next")

\* the prev-day button of the page shown is pressed
NavPrevDay ==
    /\ nav_page # <<>>
    /\ Len(nav_moves) < MaxNavMoves
    /\ NavGo(NavTarget(nav_page[1], "prev"), "prev")

NavNext == NavOpen \/ NavNextDay \/ NavPrevDay

InitNav ==
    StoreInit /\ RaceIdle /\ DayIdle /\ DateIdle /\ PageIdle /\ DispatchIdle /\ CodecIdle
    /\ TeacherIdle /\ NavInit /\ RenderIdle /\ UpdIdle

SpecNav == InitNav /\ [][NavNext]_vars

\* the page returned is the empty-schedule page
IsEmptyPage == sched_page # <<>> /\ sched_page[1].kind = "empty_schedule"

\* the dates the four navigation buttons of the page returned carry
PrevDayTarget == ButtonDate(sched_page[1].buttons[1][1], OpenDay)
NextDayTarget == ButtonDate(sched_page[1].buttons[1][2], OpenDay)
PrevWeekTarget == ButtonDate(sched_page[1].buttons[2][1], OpenWeek)
NextWeekTarget == ButtonDate(sched_page[1].buttons[2][2], OpenWeek)

\* C11: on the empty-schedule page, when skipLeft > 1 or skipRight > 1 the
\* page is the aggregated one and its displayed bounds are exactly
\* [reference - skipLeft + 1, reference + skipRight - 1]; when skipLeft = 1
\* and skipRight = 1 the page is the single-day page for the reference date.
C11_MergeThreshold ==
    IsEmptyPage =>
        /\ (sched_page[1].skip_left > 1 \/ sched_page[1].skip_right > 1) =>
              /\ sched_page[1].text = "page.schedule.empty.multiple_days"
              /\ sched_page[1].format =
                    [dateStart |-> PlusDays(req_date, 1 - sched_page[1].skip_left),
                     dateEnd |-> PlusDays(req_date, sched_page[1].skip_right - 1)]
        /\ (sched_page[1].skip_left = 1 /\ sched_page[1].skip_right = 1) =>
              /\ sched_page[1].text = "page.schedule.empty"
              /\ sched_page[1].format = [date |-> req_date]

\* an aggregated page with one skip at the threshold and the other above it
C11_Witness ==
    /\ IsEmptyPage
    /\ sched_page[1].skip_left = 1
    /\ sched_page[1].skip_right = 2
    /\ sched_page[1].text = "page.schedule.empty.multiple_days"

\* C12: on an aggregated empty-range page the week-navigation targets never
\* lie inside the merged range: nextWeek = max(reference + 7, nextDayTarget)
\* is after the range's last day and prevWeek = min(reference - 7,
\* prevDayTarget) is before its first day.
C12_WeekTargetsOutside ==
    (IsEmptyPage /\ sched_page[1].text = "page.schedule.empty.multiple_days") =>
        /\ NextWeekTarget = MaxDate(PlusDays(req_date, 7), NextDayTarget)
        /\ ToOrdinal(NextWeekTarget) > ToOrdinal(sched_page[1].format.dateEnd)
        /\ PrevWeekTarget = MinDate(PlusDays(req_date, -7), PrevDayTarget)
        /\ ToOrdinal(PrevWeekTarget) < ToOrdinal(sched_page[1].format.dateStart)

\* an aggregated page whose range reaches beyond reference + 7
C12_Witness ==
    /\ IsEmptyPage
    /\ sched_page[1].text = "page.schedule.empty.multiple_days"
    /\ sched_page[1].skip_right > 8
    /\ NextWeekTarget = NextDayTarget

\* the emptiness rule of the design: a day is empty if it has no lessons or
\* every period's discipline name contains the hidden marker
EmptyByRule(d) ==
    \/ Len(d.lessons) = 0
    \/ \A i \in 1..Len(d.lessons) :
          \A j \in 1..Len(d.lessons[i].periods) :
              IsHidden(d.lessons[i].periods[j])

\* t is the date of a day of the fetched window that is not empty
OnNonEmptyDay(t) ==
    \E i \in 1..Len(remote) :
        remote[i].date = isoformat(t) /\ ~EmptyByRule(remote[i])

FirstDate == fromisoformat(remote[1].date)
LastDate == fromisoformat(remote[Len(remote)].date)

\* C13: on the empty-schedule page the previous-day and next-day buttons
\* point to reference - skipLeft and reference + skipRight, and each of the
\* two target dates is either a non-empty day of the fetched window or a
\* boundary date (first or last day) of that window.
C13_TargetsOnContentOrBoundary ==
    IsEmptyPage =>
        /\ PrevDayTarget = PlusDays(req_date, -sched_page[1].skip_left)
        /\ NextDayTarget = PlusDays(req_date, sched_page[1].skip_right)
        /\ \A t \in {PrevDayTarget, NextDayTarget} :
              OnNonEmptyDay(t) \/ t = FirstDate \/ t = LastDate

\* C13 as amended: on the empty-schedule page the previous-day and next-day
\* buttons point to reference - skipLeft and reference + skipRight; the
\* previous-day target is a non-empty day of the fetched window or the day
\* before the window's first day, and the next-day target is a non-empty
\* day of the fetched window or the day after the window's last day.
C13_TargetsOnContentOrBeyond ==
    IsEmptyPage =>
        /\ PrevDayTarget = PlusDays(req_date, -sched_page[1].skip_left)
        /\ NextDayTarget = PlusDays(req_date, sched_page[1].skip_right)
        /\ OnNonEmptyDay(PrevDayTarget) \/ PrevDayTarget = PlusDays(FirstDate, -1)
        /\ OnNonEmptyDay(NextDayTarget) \/ NextDayTarget = PlusDays(LastDate, 1)

\* a page with one target on a day with lessons and the other beyond the
\* window
C13_Witness ==
    /\ IsEmptyPage
    /\ OnNonEmptyDay(NextDayTarget)
    /\ PrevDayTarget = PlusDays(FirstDate, -1)

\* C14: when a chat whose groupId is null requests the schedule page, the
\* result is the invalid-group page.
C14_NoGroupInvalidGroup ==
    (sched_page # <<>> /\ group_id = <<>>) =>
        sched_page[1].kind = "invalid_group"

\* the rules with a pattern that matches the name of the dispatched action
MatchingRules ==
    {i \in 1..Len(handlers) :
        /\ handlers[i].pattern # <<>>
        /\ Match(handlers[i].pattern, decode(action[1]).name)}

\* C15: for every inbound callback action exactly one button handler runs:
\* the first registered handler, in registration order, whose pattern
\* matches the action name, or the fallback handler when no pattern
\* matches; the registry and the action determine it.
C15_ExactlyOneHandler ==
    action # <<>> =>
        /\ Len(ran) = 1
        /\ IF MatchingRules # {}
           THEN \E i \in MatchingRules :
                   /\ \A j \in MatchingRules : i <= j
                   /\ ran[1] = handlers[i].callback
           ELSE ran[1] = "unsupported_btn_handler"

\* all four handlers are registered and a day button of the schedule page
\* came in: the rule of open_schedule_day and the fallback both match
C15_Witness ==
    /\ action # <<>>
    /\ Len(handlers) = 4
    /\ action[1] \in {OpenWeek \o isoformat(d) : d \in RefDates}
    /\ MatchingRules # {}
    /\ ran = <<"open_schedule_day">>

\* '#', '&' and '=' are the reserved characters
NoReserved(str) == \A i \in 1..Len(str) : str[i] \notin {"#", "&", "="}

\* the argument map an argument list denotes, each value as decode gives it
ArgMap(args) ==
    [k \in {args[i][1] : i \in 1..Len(args)} |->
        <<args[CHOOSE i \in 1..Len(args) : args[i][1] = k][2]>>]

\* C16: for every action name and argument map in which no name, key or
\* value contains '#', '&' or '=', decode(encode(name, args)) returns the
\* same name and the same argument map.
C16_RoundTrip ==
    (/\ cb_query # <<>>
     /\ NoReserved(cb_name)
     /\ \A i \in 1..Len(cb_args) : NoReserved(cb_args[i][1]) /\ NoReserved(cb_args[i][2]))
    => /\ cb_query[1].name = cb_name
       /\ cb_query[1].args = ArgMap(cb_args)

\* two arguments without reserved characters, one of them with an empty
\* value, went through encode and decode
C16_Witness ==
    /\ cb_query # <<>>
    /\ NoReserved(cb_name)
    /\ Len(cb_args) = 2
    /\ cb_args[1][2] = <<>>
    /\ cb_args[2][2] # <<>>
    /\ \A i \in 1..2 : NoReserved(cb_args[i][1]) /\ NoReserved(cb_args[i][2])

\* the codec format of the design: a name alone, or name '#' and then
\* '&'-separated segments key=value with different keys
HasCodecFormat(data) ==
    \/ Find(data, "#", 1) = 0
    \/ /\ \A seg \in {Split(SubSeq(data, Find(data, "#", 1) + 1, Len(data)), "&")[i] :
                        i \in 1..Len(Split(SubSeq(data, Find(data, "#", 1) + 1, Len(data)), "&"))} :
             Len(Split(seg, "=")) = 2
       /\ \A i, j \in 1..Len(Split(SubSeq(data, Find(data, "#", 1) + 1, Len(data)), "&")) :
             i # j => Split(Split(SubSeq(data, Find(data, "#", 1) + 1, Len(data)), "&")[i], "=")[1]
                      # Split(Split(SubSeq(data, Find(data, "#", 1) + 1, Len(data)), "&")[j], "=")[1]

\* the callback data on the buttons of the page schedule returned
PageButtons ==
    IF sched_page = <<>> \/ "buttons" \notin DOMAIN sched_page[1] THEN {}
    ELSE UNION {{sched_page[1].buttons[r][c] : c \in DOMAIN sched_page[1].buttons[r]} :
                   r \in DOMAIN sched_page[1].buttons}

\* C17: every callback-action string that a page puts on a button has the
\* codec format: a name alone, or name '#' followed by '&'-separated
\* segments each of which is key=value with keys unique.
C17_ButtonsHaveCodecFormat ==
    \A data \in PageButtons : HasCodecFormat(data)

\* the names a teacher field lists: its parts between commas, each without
\* the blank that follows the comma
ListedNames(field) ==
    [i \in 1..Len(Split(field, ",")) |->
        IF i > 1 /\ Split(field, ",")[i] # <<>> /\ Head(Split(field, ",")[i]) = " "
        THEN Tail(Split(field, ",")[i])
        ELSE Split(field, ",")[i]]

\* the text Telegram shows for a MarkdownV2 text: a backslash shows the
\* character after it, a link [text](url) shows its text
RECURSIVE Shown(_, _, _)
Shown(text, i, in_url) ==
    IF i > Len(text) THEN <<>>
    ELSE IF text[i] = "\\"
         THEN (IF in_url THEN <<>> ELSE <<text[i + 1]>>) \o Shown(text, i + 2, in_url)
    ELSE IF in_url THEN Shown(text, i + 1, text[i] # ")")
    ELSE IF text[i] = "[" THEN Shown(text, i + 1, FALSE)
    ELSE IF text[i] = "]" THEN Shown(text, i + 2, TRUE)
    ELSE <<text[i]>> \o Shown(text, i + 1, FALSE)

\* C18: when a period's teacher field lists k >= 2 names separated by
\* commas, the rendered teacher text is the first name followed by "+N" with
\* N = k - 1 (for "Smith, Jones" it ends in "Smith +1"); with a single name
\* no "+N" is appended.
C18_FirstNamePlusRest ==
    teacher_name # <<>> =>
        IF Len(ListedNames(teachersNameFull)) >= 2
        THEN Shown(teacher_name[1], 1, FALSE)
                = ListedNames(teachersNameFull)[1] \o <<" ", "+">>
                  \o Str(Len(ListedNames(teachersNameFull)) - 1)
        ELSE Shown(teacher_name[1], 1, FALSE) = teachersNameFull

\* three names, the first with characters MarkdownV2 escapes and with a page
\* link, gave a text ending in "+2"
C18_Witness ==
    /\ teacher_name # <<>>
    /\ teacher # <<>>
    /\ Len(ListedNames(teachersNameFull)) = 3
    /\ ListedNames(teachersNameFull)[1] = KimJr
    /\ SubSeq(teacher_name[1], Len(teacher_name[1]) - 3, Len(teacher_name[1]))
          = <<" ", "\\", "+", "2">>

\* the distances, in days, from the reference date to the days of the
\* fetched window that lie beyond it (sign 1: after, -1: before) and are not
\* empty by the rule of the design
NonEmptyBeyond(sign) ==
    {n \in {sign * DaysBetween(fromisoformat(remote[i].date), req_date) :
               i \in {j \in 1..Len(remote) : ~EmptyByRule(remote[j])}} :
        n > 0}

\* C19: for a date-sorted window and a reference date, the skip count of a
\* direction is the day distance from the reference to the nearest day of
\* the window that lies strictly beyond the reference in that direction and
\* is not empty; no non-empty day lies strictly between the reference and
\* that day.
C19_SkipIsNearestNonEmpty ==
    IsEmptyPage =>
        /\ NonEmptyBeyond(1) # {} =>
              /\ sched_page[1].skip_right \in NonEmptyBeyond(1)
              /\ \A n \in NonEmptyBeyond(1) : sched_page[1].skip_right <= n
        /\ NonEmptyBeyond(-1) # {} =>
              /\ sched_page[1].skip_left \in NonEmptyBeyond(-1)
              /\ \A n \in NonEmptyBeyond(-1) : sched_page[1].skip_left <= n

\* no day of the fetched window beyond the reference date (after: TRUE,
\* before: FALSE) passes the test of _count_no_lesson_days
NoLessonsBeyond(after) ==
    \A i \in 1..Len(remote) :
        (IF after
         THEN ToOrdinal(fromisoformat(remote[i].date)) > ToOrdinal(req_date)
         ELSE ToOrdinal(fromisoformat(remote[i].date)) < ToOrdinal(req_date))
        => _is_day_empty(remote[i])

\* C20: when the fetched window has no non-empty day strictly after the
\* reference date, the next-day target is the window's last date plus one
\* day; when it has none strictly before, the previous-day target is the
\* window's first date minus one day.  (A day that is not empty by the rule
\* of the design but counts as empty for _is_day_empty is covered too.)
C20_UnboundedTargets ==
    IsEmptyPage =>
        /\ NoLessonsBeyond(TRUE) => NextDayTarget = PlusDays(LastDate, 1)
        /\ NoLessonsBeyond(FALSE) => PrevDayTarget = PlusDays(FirstDate, -1)

\* lessons before the reference date and none after it
C20_Witness ==
    /\ IsEmptyPage
    /\ NoLessonsBeyond(TRUE)
    /\ ~NoLessonsBeyond(FALSE)
    /\ NextDayTarget = PlusDays(LastDate, 1)

\* C21: in the schedule and empty-schedule page builders a failed schedule
\* fetch is never retried and never escapes the builder: a validation
\* rejection (HTTP 422) yields the invalid-group page and every other remote
\* failure yields the API-unavailable page.
C21_FailedFetchGivesFallbackPage ==
    (sched_page # <<>> /\ \E i \in 1..Len(api_status) : api_status[i] # "ok")
    => /\ api_status[Len(api_status)] # "ok"
       /\ \A i \in 1..(Len(api_status) - 1) : api_status[i] = "ok"
       /\ sched_page[1].kind = IF api_status[Len(api_status)] = "422"
                               THEN "invalid_group" ELSE "api_unavaliable"

\* C22: remove_message(id) completes without raising; afterwards the history
\* has no entry with that id (the other entries keep their order, and an
\* absent id leaves the history unchanged).
C22_RemoveCompletes ==
    op.name = "remove_message" =>
        /\ ~op.raised
        /\ op.msg_id \notin MsgIds(Messages(op.id))
        /\ op.id \in DOMAIN disk
        /\ op.msg_id \notin MsgIds(disk[op.id]["_messages"])

\* C23: every operation that changes a field of a chat or user record (set,
\* add_message, remove_message) refreshes the record's _updated to the
\* current time, so it is never older than the last change of a field.
C23_UpdatedRefreshed ==
    (\/ op.name \in {"set", "add_message"}
     \/ op.name = "remove_message" /\ op.found)
    => Record(op.id)["_updated"] = now

\* the part of C23 about set and add_message
C23_SetAndAddRefresh ==
    op.name \in {"set", "add_message"} => Record(op.id)["_updated"] = now

\* C26: for every date (leap and non-leap years, buckets that cross the
\* year end or start at day of year 0 included) and every range >= 1,
\* get_date_range returns from_date <= date <= to_date with to_date exactly
\* range - 1 days after from_date.
C26_RangeAroundDate ==
    date_range # <<>> =>
        /\ ToOrdinal(date_range[1]) <= ToOrdinal(date)
        /\ ToOrdinal(date) <= ToOrdinal(date_range[2])
        /\ ToOrdinal(date_range[2]) = ToOrdinal(date_range[1]) + range - 1

\* the same for the dates of years without a 29th of February
C26_NonLeapYears ==
    (date_range # <<>> /\ ~IsLeap(date.year)) =>
        /\ ToOrdinal(date_range[1]) <= ToOrdinal(date)
        /\ ToOrdinal(date) <= ToOrdinal(date_range[2])
        /\ ToOrdinal(date_range[2]) = ToOrdinal(date_range[1]) + range - 1

\* C28: after any sequence of add_message and remove_message calls starting
\* from an empty history, no two entries of a chat's message history have
\* the same message id, in the cache and on disk.
C28_UniqueMessageIds ==
    \A id \in ChatIds : \A h \in Histories(id) :
        \A i, j \in 1..Len(h) : h[i][1] = h[j][1] => i = j

\* a message that is in a history of several entries has been added again,
\* after updates or removals
C28_Witness ==
    /\ op.name = "add_message"
    /\ op.found
    /\ nedit = MaxEdits
    /\ Len(cache["c1"]["_messages"]) >= 3
    /\ cache["c1"]["_messages"][1][1] = op.msg.id

\* the page carries the 'today' button
HasTodayButton == OpenToday \in PageButtons

\* C30: the 'today' button is on the empty-schedule page if and only if
\* today does not lie strictly between the previous-day target and the
\* next-day target, and on the day-schedule page if and only if the
\* displayed date is not today.
C30_TodayButton ==
    /\ IsEmptyPage =>
          (HasTodayButton <=>
              ~(/\ ToOrdinal(PrevDayTarget) < ToOrdinal(today)
                /\ ToOrdinal(today) < ToOrdinal(NextDayTarget)))
    /\ (sched_page # <<>> /\ sched_page[1].kind = "day_schedule") =>
          (HasTodayButton <=> req_date # today)

\* today is the day the next-day button of an empty-schedule page leads to:
\* the page has the button
C30_Witness ==
    /\ IsEmptyPage
    /\ today = NextDayTarget
    /\ HasTodayButton
    /\ sched_page[1].skip_right = 2

\* the date of the page shown, and whether it is the empty-schedule page
NavDate == nav_trail[Len(nav_trail)]
NavOnEmptyPage == nav_page # <<>> /\ nav_page[1].kind = "empty_schedule"

\* C24: for every non-empty fetched window and every reference date inside
\* it, empty_schedule computes skipLeft >= 1 and skipRight >= 1, so the
\* previous-day target is strictly before and the next-day target strictly
\* after the reference, and navigation by the next-day (previous-day)
\* button strictly advances (goes back).
C24_SkipsAtLeastOne ==
    /\ (/\ NavOnEmptyPage
        /\ ToOrdinal(get_date_range(NavDate, DEFAULT_RANGE)[1]) <= ToOrdinal(NavDate)
        /\ ToOrdinal(NavDate) <= ToOrdinal(get_date_range(NavDate, DEFAULT_RANGE)[2]))
       => /\ nav_page[1].skip_left >= 1
          /\ nav_page[1].skip_right >= 1
          /\ ToOrdinal(NavTarget(nav_page[1], "prev")) < ToOrdinal(NavDate)
          /\ ToOrdinal(NavTarget(nav_page[1], "next")) > ToOrdinal(NavDate)
    /\ \A i \in 1..Len(nav_moves) :
          IF nav_moves[i] = "next"
          THEN ToOrdinal(nav_trail[i + 1]) > ToOrdinal(nav_trail[i])
          ELSE ToOrdinal(nav_trail[i + 1]) < ToOrdinal(nav_trail[i])

\* the next-day button led to the last day of a window, an empty day with no
\* day after it in the window: the skip to the right is 1
C24_Witness ==
    /\ NavOnEmptyPage
    /\ nav_moves = <<"next">>
    /\ NavDate = [year |-> 2023, month |-> 8, day |-> 25]
    /\ nav_page[1].count_right = <<>>
    /\ nav_page[1].skip_right = 1

\* C25: from the schedule page of a non-empty day D, following the next-day
\* button and then the previous-day button of the page so reached leads
\* back to D, whether D+1 is shown as a day page, a single empty day or a
\* merged empty range.
C25_NextThenPrevReturns ==
    (/\ nav_moves = <<"next", "prev">>
     /\ ~EmptyByRule([lessons |-> lessons_on(nav_lessons, isoformat(nav_trail[1]))]))
    => nav_trail[3] = nav_trail[1]

\* the same from the days that schedule() shows as a day page
C25_FromDayPages ==
    (/\ nav_moves = <<"next", "prev">>
     /\ ~shows_empty(nav_trail[1], NavWindow(nav_lessons, nav_trail[1])))
    => /\ nav_trail[2] = PlusDays(nav_trail[1], 1)
       /\ nav_trail[3] = nav_trail[1]

\* C27: composing the day-schedule page leaves the day record it was given
\* unchanged, and rendering the same record twice yields the same text (no
\* value is escaped or shortened a second time).
C27_RenderLeavesRecord ==
    /\ Len(render_sections) >= 1 => render_day = render_given
    /\ Len(render_sections) >= 2 => render_sections[2] = render_sections[1]

\* the records for which it holds: no value the section uses is missing or
\* has a character to escape, and the one teacher is not linked
PlainText(s) == s # <<>> /\ escape_markdown(s) = s
PlainPeriod(p) ==
    /\ PlainText(p.disciplineShortName) /\ PlainText(p.typeStr)
    /\ escape_markdown(p.classroom) = p.classroom
    /\ PlainText(p.timeStart) /\ PlainText(p.timeEnd)
    /\ teacher_text(p.teachersNameFull,
                    _find_teacher(escape_markdown(SplitFirst(p.teachersNameFull, CommaSpace)),
                                  render_known)) = p.teachersNameFull
C27_SameTextTwice ==
    Len(render_sections) >= 2 => render_sections[2] = render_sections[1]
C27_PlainRecords ==
    (/\ render_given # <<>>
     /\ \A i \in 1..Len(render_given.lessons) :
           \A j \in 1..Len(render_given.lessons[i].periods) :
              PlainPeriod(render_given.lessons[i].periods[j]))
    => C27_RenderLeavesRecord

\* the callbacks that call apply_data
ApplyCallbacks == {"btn_handler", "msg_handler"}

\* the step of apply_data for the update being processed
ApplyDataStep == upd # <<>> /\ upd_ran = <<>> /\ upd_ran' # <<>>

\* C29: for every update (message or button tap) apply_data runs before the
\* matched handler of that update; when it has finished the chat's
\* accessible flag is true; it writes to the store only when the flag was
\* false (a record it reads for the first time is created with the
\* defaults, no stored record changes).
C29_ApplyDataFirst ==
    /\ [](upd_ran # <<>> =>
             /\ upd_ran[1] \in ApplyCallbacks
             /\ \A i \in 2..Len(upd_ran) : upd_ran[i] \notin ApplyCallbacks
             /\ cache[UpdChat]["_accessible"] = TRUE
             /\ disk[UpdChat]["_accessible"] = TRUE)
    /\ [][ApplyDataStep =>
             IF get(St, UpdChat, "_accessible", FALSE, now) = TRUE
             THEN /\ \A id \in DOMAIN disk : disk'[id] = disk[id]
                  /\ UpdChat \notin DOMAIN disk => disk'[UpdChat] = get_default_chat(now)
             ELSE /\ disk'[UpdChat] = Put(Put(disk[UpdChat], "_updated", now),
                                          "_accessible", TRUE)
                  /\ cache'[UpdChat] = disk'[UpdChat]]_vars

\* a button tap in a chat marked inaccessible: apply_data has read the
\* flag as false and written it, and the button handler has run after it
C29_Witness ==
    /\ upd # <<>>
    /\ upd[1].kind = "callback_query"
    /\ upd[1].flag = <<FALSE>>
    /\ upd_ran = <<"btn_handler", "button_handler">>
    /\ disk[UpdChat]["_accessible"] = TRUE

====
